---------------------------- MODULE Spec2Model ----------------------------
(***************************************************************************)
(* Model of the LinkedIn job scraper content script                        *)
(* (pages/content/src/linkedin-scraper.ts, class LinkedInJobScraper).      *)
(*                                                                         *)
(* The content script runs on one JavaScript thread.  Every action below   *)
(* is one run-to-completion step: the synchronous code (and the microtask  *)
(* continuations that follow it without a timer) between two timer or      *)
(* message suspensions.  An asynchronous page walk (one startScraping      *)
(* call) is a process with a program counter naming the suspension it is   *)
(* parked in.                                                              *)
(***************************************************************************)
EXTENDS Integers, Sequences, FiniteSets, TLC

\* ---------------------------------------------------------------- constants
JOBS_PER_PAGE       == 25
MAX_LOW_YIELD_PAGES == 3
LOW_YIELD_THRESHOLD == 5

\* ------------------------------------------------------------------- bounds
MaxRuns    == 2     \* startScraping calls explored per content-script instance
MaxInFlight == 1    \* SAVE_JOBS messages awaiting their response at once
MaxPasses  == 1     \* watcher re-extraction timers pending at once
WalkPages  == 4     \* pages of the sites walked by a single run
MaxResults == 140   \* largest "N results" value fed to getPaginationInfo
MaxOffset  == 77    \* largest start= offset fed to getPaginationInfo
MaxShown   == 7     \* largest Y of "Page X of Y" fed to getPaginationInfo
MaxCards   == 2     \* largest card count the scrolled container shows
MaxPending == 2     \* storage and download operations pending at once
MaxBatch   == 2     \* largest SAVE_JOBS payload
MaxFieldLen == 3    \* longest field given to escapeCsvField
MaxAmount  == 3     \* largest amount of a relative date

\* ------------------------------------------------------------ DOM encodings
Null    == [none |-> TRUE]          \* a null JobData
NoPanel == [absent |-> TRUE]        \* no details container in the document
Throws  == [throws |-> TRUE]        \* the click or the extraction throws
NoParam == -1                       \* the URL has no start= parameter
NoMatch == -1                       \* no "Page X of Y" text is rendered

Max(a, b) == IF a >= b THEN a ELSE b

\* One listing card of the document, with the detail panel a click on it
\* brings up.  title/company "" stand for a missing or empty element; in the
\* panel they stand for a missing title/company element of the panel.
Card(t, c, u, l, p) == [title |-> t, company |-> c, url |-> u, link |-> l, panel |-> p]
Panel(t, c) == [title |-> t, company |-> c]

VARIABLES
    jobs,              \* LinkedInJobScraper.jobs
    isScrapingActive,  \* LinkedInJobScraper.isScrapingActive
    observer,          \* LinkedInJobScraper.observer is connected (non-null)
    ttlTimers,         \* pending 30 s disconnect timers of observePageChanges
    passTimers,        \* pending 1 s scrapeJobListings timers of the observer
    walk,              \* the startScraping calls: locals and suspension point
    nruns,             \* startScraping calls made so far
    runCap,            \* startScraping calls explored in this behaviour
    startParam,        \* the start= query parameter of window.location
    site,              \* what the host site renders: page kind, cards, signals
    outbox,            \* SAVE_JOBS messages awaiting their response callback
    stopNotice,        \* the last notification stopScraping or its callback showed
    lazy,              \* one triggerLazyLoadingOfAllJobs call: locals, container
    bg,                \* the background script: scrapedJobs, storage, requests
    csv,               \* one escapeCsvField call: argument and result
    call               \* one call of a helper of the scraper: argument, result

vars == <<jobs, isScrapingActive, observer, ttlTimers, passTimers, walk, nruns,
          runCap, startParam, site, outbox, stopNotice,
          lazy, bg, csv, call>>

Runs == 1..MaxRuns

\* --------------------------------------------------------------- pure parts
\* Math.ceil(a / b) for a >= 0, b > 0
Ceil(a, b) == (a + b - 1) \div b

\* getPaginationInfo with Math.floor in place of Math.ceil
getPaginationInfoFloor(totalResults, start, shown) ==
    LET calculatedPages    == IF totalResults > 0
                              THEN totalResults \div JOBS_PER_PAGE ELSE 1
        currentPageFromUrl == IF start = NoParam
                              THEN 1 ELSE (start \div JOBS_PER_PAGE) + 1
        displayedTotalPages == IF shown = NoMatch THEN calculatedPages ELSE shown
    IN  [currentPage     |-> currentPageFromUrl,
         totalPages      |-> Max(calculatedPages, displayedTotalPages),
         totalResults    |-> totalResults,
         calculatedPages |-> calculatedPages]

\* getPaginationInfo that ignores the rendered "Page X of Y"
getPaginationInfoNoIndicator(totalResults, start, shown) ==
    LET calculatedPages    == IF totalResults > 0
                              THEN Ceil(totalResults, JOBS_PER_PAGE) ELSE 1
        currentPageFromUrl == IF start = NoParam
                              THEN 1 ELSE (start \div JOBS_PER_PAGE) + 1
    IN  [currentPage     |-> currentPageFromUrl,
         totalPages      |-> calculatedPages,
         totalResults    |-> totalResults,
         calculatedPages |-> calculatedPages]

getPaginationInfo(totalResults, start, shown) ==
    LET calculatedPages    == IF totalResults > 0
                              THEN Ceil(totalResults, JOBS_PER_PAGE) ELSE 1
        currentPageFromUrl == IF start = NoParam
                              THEN 1 ELSE (start \div JOBS_PER_PAGE) + 1
        displayedTotalPages == IF shown = NoMatch THEN calculatedPages ELSE shown
    IN  [currentPage     |-> currentPageFromUrl,
         totalPages      |-> Max(calculatedPages, displayedTotalPages),
         totalResults    |-> totalResults,
         calculatedPages |-> calculatedPages]

isDuplicateJob(js, newJob) ==
    \E k \in 1..Len(js) : /\ js[k].title = newJob.title
                          /\ js[k].company = newJob.company
                          /\ js[k].url = newJob.url

\* title.replace(/with verification$/, '').trim() on the titles the cards of
\* the model carry: only the bare suffix is changed by it
cleanTitle(title) == IF title = "with verification" THEN "" ELSE title

\* extractJobDataFromCard without the missing-title-or-company return
extractJobDataFromCardUngated(card) ==
    [title |-> cleanTitle(card.title), company |-> card.company,
     url |-> card.url, enriched |-> FALSE]

extractJobDataFromCard(card) ==
    IF cleanTitle(card.title) = "" \/ card.company = ""
    THEN Null
    ELSE [title |-> cleanTitle(card.title), company |-> card.company,
          url |-> card.url, enriched |-> FALSE]

\* the title and company elements of the detail page, read with trim() only
extractJobDataFromDetailPage(d) ==
    IF d.title = "" \/ d.company = ""
    THEN Null
    ELSE [title |-> d.title, company |-> d.company, url |-> d.url,
          enriched |-> FALSE]

\* the document's detail panel is the one the clicked card brought up
extractDetailedJobInfo(basicData, card) ==
    IF card.panel = NoPanel \/ card.panel = Throws
    THEN basicData
    ELSE [basicData EXCEPT
            !.title    = IF card.panel.title # "" THEN card.panel.title ELSE @,
            !.company  = IF card.panel.company # "" THEN card.panel.company ELSE @,
            !.enriched = TRUE]

\* clickAndExtractJobDetails whose failure paths resolve to null
clickAndExtractJobDetailsDrops(card, basicData) ==
    IF ~card.link \/ card.panel = Throws \/ card.panel = NoPanel
    THEN Null
    ELSE extractDetailedJobInfo(basicData, card)

\* what clickAndExtractJobDetails resolves to
clickAndExtractJobDetails(card, basicData) ==
    IF ~card.link \/ card.panel = Throws
    THEN basicData
    ELSE extractDetailedJobInfo(basicData, card)

\* ------------------------------------------------------------- the document
PageOf(start) == IF start = NoParam THEN 1 ELSE (start \div JOBS_PER_PAGE) + 1

CardsOn(st, p)   == IF p \in DOMAIN st.cards THEN st.cards[p] ELSE << >>
ResultsOn(st, p) == IF p \in DOMAIN st.results THEN st.results[p] ELSE 0
ShownOn(st, p)   == IF p \in DOMAIN st.shown THEN st.shown[p] ELSE NoMatch
\* the results count the subtitle shows once the cards of page p were walked
\* scrapeJobListingsDetailed throws on page p, outside processJobCardDetailed
PageThrows(st, p) == IF "throws" \in DOMAIN st THEN p \in st.throws ELSE FALSE
ResultsAtNav(st, p) ==
    IF "later" \in DOMAIN st THEN st.later[p] ELSE ResultsOn(st, p)

isJobSearchPage(st) == st.search
isJobDetailPage(st) == st.detail

\* ------------------------------------------------------ the instance state
\* The operators below are the synchronous pieces of the class; each takes the
\* instance state as a record and returns the state it leaves.
State == [jobs |-> jobs, active |-> isScrapingActive, observer |-> observer,
          ttl |-> ttlTimers, passes |-> passTimers, walk |-> walk,
          start |-> startParam, outbox |-> outbox,
          stopNotice |-> stopNotice]

Becomes(s) ==
    /\ jobs' = s.jobs
    /\ isScrapingActive' = s.active
    /\ observer' = s.observer
    /\ ttlTimers' = s.ttl
    /\ passTimers' = s.passes
    /\ walk' = s.walk
    /\ startParam' = s.start
    /\ outbox' = s.outbox
    /\ stopNotice' = s.stopNotice
    /\ UNCHANGED <<lazy, bg, csv, call>>

\* One startScraping call.  pc is the suspension it is parked in; kind is the
\* branch its page classification took; info, currentPage, lowYield and
\* jobsBefore are the locals of scrapeAllPages; page and i are the card list
\* captured by scrapeJobListingsDetailed and its loop index; basic is the
\* basicJobData of the card inside clickAndExtractJobDetails.  The counters
\* newJobsFound and duplicatesSkipped only feed log lines and are left out.
\* Observation of the call, not read by it: notice (the last notification it
\* showed), outcome (the exit it took), recent (newJobsThisPage of its last
\* MAX_LOW_YIELD_PAGES pages), added (records it pushed on the page it is on),
\* contrib (added of its last MAX_LOW_YIELD_PAGES pages), pages (loop bodies
\* entered), late (records it appended since the last stopScraping) and
\* drives (triggerLazyLoadingOfAllJobs calls it made on the page shown).
IdleWalk == [pc |-> "idle", kind |-> "none",
             info |-> getPaginationInfo(0, NoParam, NoMatch),
             currentPage |-> 0, lowYield |-> 0, jobsBefore |-> 0, page |-> 0,
             i |-> 0, basic |-> Null,
             notice |-> "none", outcome |-> "none", recent |-> << >>,
             added |-> 0, contrib |-> << >>, pages |-> 0, late |-> 0,
             drives |-> 0]

LastN(q, n) == IF Len(q) <= n THEN q ELSE SubSeq(q, Len(q) - n + 1, Len(q))

paginationInfoNow(s) ==
    getPaginationInfo(ResultsOn(site, PageOf(s.start)), s.start,
                      ShownOn(site, PageOf(s.start)))

\* observePageChanges without its isScrapingActive test
observePageChangesAlways(s) ==
    [s EXCEPT !.observer = TRUE, !.ttl = @ + 1]

observePageChanges(s) ==
    IF ~s.active THEN s
    ELSE [s EXCEPT !.observer = TRUE, !.ttl = @ + 1]

\* startScraping after its branch returned: observePageChanges, final log
FinishStart(s, w, how) ==
    observePageChanges([s EXCEPT !.walk[w].pc = "done", !.walk[w].outcome = how,
                                 !.walk[w].jobsBefore = 0, !.walk[w].page = 0,
                                 !.walk[w].i = 0, !.walk[w].basic = Null,
                                 !.walk[w].added = 0])

\* the catch block of startScraping that also empties the working list
startScrapingCatchClears(s, w) ==
    [s EXCEPT !.jobs = << >>,
              !.walk[w].pc = "done", !.walk[w].outcome = "error",
              !.walk[w].notice = "error",
              !.walk[w].jobsBefore = 0, !.walk[w].page = 0, !.walk[w].i = 0,
              !.walk[w].basic = Null, !.walk[w].added = 0]

\* an exception leaves scrapeAllPages: the catch block of startScraping shows
\* the error notification; observePageChanges is skipped
startScrapingCatch(s, w) ==
    [s EXCEPT !.walk[w].pc = "done", !.walk[w].outcome = "error",
              !.walk[w].notice = "error",
              !.walk[w].jobsBefore = 0, !.walk[w].page = 0, !.walk[w].i = 0,
              !.walk[w].basic = Null, !.walk[w].added = 0]

\* navigateToNextPage that gives up the working list when it returns false
navigateToNextPageDrops(s, w) ==
    LET info == getPaginationInfo(ResultsAtNav(site, PageOf(s.start)), s.start,
                                  ShownOn(site, PageOf(s.start))) IN
    IF info.currentPage >= info.totalPages
    THEN FinishStart([s EXCEPT !.jobs = << >>], w, "navfail")
    ELSE [s EXCEPT !.start = ((info.currentPage + 1) - 1) * JOBS_PER_PAGE,
                   !.walk[w].drives = 0,
                   !.walk[w].pc = "navWait"]

\* navigateToNextPage up to its await, and on false the break of the page loop
navigateToNextPage(s, w) ==
    LET info == getPaginationInfo(ResultsAtNav(site, PageOf(s.start)), s.start,
                                  ShownOn(site, PageOf(s.start))) IN
    IF info.currentPage >= info.totalPages
    THEN FinishStart(s, w, "navfail")
    ELSE [s EXCEPT !.start = ((info.currentPage + 1) - 1) * JOBS_PER_PAGE,
                   !.walk[w].drives = 0,
                   !.walk[w].pc = "navWait"]

\* AfterPage whose else branch does not reset consecutiveLowYieldPages
AfterPageNoReset(s, w) ==
    LET me == s.walk[w]
        newJobsThisPage == Len(s.jobs) - me.jobsBefore
        low == IF newJobsThisPage < LOW_YIELD_THRESHOLD THEN me.lowYield + 1
               ELSE me.lowYield
        s1  == [s EXCEPT !.walk[w].lowYield = low,
                         !.walk[w].recent =
                             LastN(Append(@, newJobsThisPage), MAX_LOW_YIELD_PAGES),
                         !.walk[w].contrib =
                             LastN(Append(@, me.added), MAX_LOW_YIELD_PAGES)]
    IN  IF newJobsThisPage < LOW_YIELD_THRESHOLD /\ low >= MAX_LOW_YIELD_PAGES
        THEN FinishStart([s1 EXCEPT !.walk[w].notice = "lowyield"], w, "aborted")
        ELSE IF me.currentPage < me.info.totalPages /\ s.active
             THEN navigateToNextPage(s1, w)
             ELSE FinishStart(s1, w, IF s.active THEN "completed" ELSE "stopped")

\* AfterPage that decides on a pagination read on the page it has walked
AfterPageFresh(s, w) ==
    LET me == s.walk[w]
        fresh == getPaginationInfo(ResultsAtNav(site, PageOf(s.start)), s.start,
                                   ShownOn(site, PageOf(s.start)))
        newJobsThisPage == Len(s.jobs) - me.jobsBefore
        low == IF newJobsThisPage < LOW_YIELD_THRESHOLD THEN me.lowYield + 1 ELSE 0
        s1  == [s EXCEPT !.walk[w].lowYield = low,
                         !.walk[w].info = fresh,
                         !.walk[w].recent =
                             LastN(Append(@, newJobsThisPage), MAX_LOW_YIELD_PAGES),
                         !.walk[w].contrib =
                             LastN(Append(@, me.added), MAX_LOW_YIELD_PAGES)]
    IN  IF newJobsThisPage < LOW_YIELD_THRESHOLD /\ low >= MAX_LOW_YIELD_PAGES
        THEN FinishStart([s1 EXCEPT !.walk[w].notice = "lowyield"], w, "aborted")
        ELSE IF me.currentPage < fresh.totalPages /\ s.active
             THEN navigateToNextPage(s1, w)
             ELSE FinishStart(s1, w, IF s.active THEN "completed" ELSE "stopped")

\* scrapeAllPages from the return of scrapeJobListingsDetailed to the next
\* suspension
AfterPage(s, w) ==
    LET me == s.walk[w]
        newJobsThisPage == Len(s.jobs) - me.jobsBefore
        low == IF newJobsThisPage < LOW_YIELD_THRESHOLD THEN me.lowYield + 1 ELSE 0
        s1  == [s EXCEPT !.walk[w].lowYield = low,
                         !.walk[w].recent =
                             LastN(Append(@, newJobsThisPage), MAX_LOW_YIELD_PAGES),
                         !.walk[w].contrib =
                             LastN(Append(@, me.added), MAX_LOW_YIELD_PAGES)]
    IN  IF newJobsThisPage < LOW_YIELD_THRESHOLD /\ low >= MAX_LOW_YIELD_PAGES
        THEN FinishStart([s1 EXCEPT !.walk[w].notice = "lowyield"], w, "aborted")
        ELSE IF me.currentPage < me.info.totalPages /\ s.active
             THEN navigateToNextPage(s1, w)
             ELSE FinishStart(s1, w, IF s.active THEN "completed" ELSE "stopped")

\* NextCard without the isScrapingActive check at the top of the card loop
NextCardUnchecked(s, w) ==
    LET me    == s.walk[w]
        cards == CardsOn(site, me.page)
    IN  IF me.i > Len(cards)
        THEN AfterPage(s, w)
        ELSE LET card  == cards[me.i]
                 basic == extractJobDataFromCard(card)
             IN  IF basic = Null \/ isDuplicateJob(s.jobs, basic)
                 THEN [s EXCEPT !.walk[w].pc = "cardDelay"]
                 ELSE IF ~card.link
                      THEN [s EXCEPT !.jobs = Append(@, basic),
                                     !.walk[w].added = @ + 1,
                                     !.walk[w].pc = "cardDelay"]
                      ELSE [s EXCEPT !.walk[w].basic = basic,
                                     !.walk[w].pc = "inDetail"]

\* the card loop of scrapeJobListingsDetailed from its condition, with card
\* index i, to the next suspension
NextCard(s, w) ==
    LET me    == s.walk[w]
        cards == CardsOn(site, me.page)
    IN  IF me.i > Len(cards) \/ ~s.active
        THEN AfterPage(s, w)
        ELSE LET card  == cards[me.i]
                 basic == extractJobDataFromCard(card)
             IN  IF basic = Null \/ isDuplicateJob(s.jobs, basic)
                 THEN [s EXCEPT !.walk[w].pc = "cardDelay"]
                 ELSE IF ~card.link
                      THEN [s EXCEPT !.jobs = Append(@, basic),
                                     !.walk[w].added = @ + 1,
                                     !.walk[w].pc = "cardDelay"]
                      ELSE [s EXCEPT !.walk[w].basic = basic,
                                     !.walk[w].pc = "inDetail"]

\* scrapeJobListingsDetailed after triggerLazyLoadingOfAllJobs returned
ScrapeListings(s, w) ==
    LET p == PageOf(s.start) IN
    IF Len(CardsOn(site, p)) = 0
    THEN AfterPage([s EXCEPT !.walk[w].notice = "nocards"], w)
    ELSE NextCard([s EXCEPT !.walk[w].page = p, !.walk[w].i = 1], w)

\* LoopTop whose while condition does not compare currentPage with totalPages
LoopTopUnchecked(s, w) ==
    IF s.active
    THEN [s EXCEPT !.walk[w].jobsBefore = Len(s.jobs),
                   !.walk[w].added = 0,
                   !.walk[w].pages = @ + 1,
                   !.walk[w].drives = @ + 1,
                   !.walk[w].pc = "lazy"]
    ELSE FinishStart(s, w, "stopped")

\* the while condition of scrapeAllPages and the loop body up to the first
\* suspension
LoopTop(s, w) ==
    LET me == s.walk[w] IN
    IF me.currentPage <= me.info.totalPages /\ s.active
    THEN [s EXCEPT !.walk[w].jobsBefore = Len(s.jobs),
                   !.walk[w].added = 0,
                   !.walk[w].pages = @ + 1,
                   !.walk[w].drives = @ + 1,
                   !.walk[w].pc = "lazy"]
    ELSE FinishStart(s, w, IF s.active THEN "completed" ELSE "stopped")

scrapeAllPages(s, w) ==
    LET info == paginationInfoNow(s) IN
    LoopTop([s EXCEPT !.walk[w].kind = "search",
                      !.walk[w].info = info,
                      !.walk[w].currentPage = info.currentPage,
                      !.walk[w].lowYield = 0], w)

scrapeJobDetail(s) ==
    LET jobData == extractJobDataFromDetailPage(site.detailJob)
    IN  IF jobData # Null /\ ~isDuplicateJob(s.jobs, jobData)
        THEN [s EXCEPT !.jobs = Append(@, jobData)]
        ELSE s

\* startScraping that sends a detail page down the pagination loop
startScrapingWalksDetail(s, w) ==
    LET s1 == [s EXCEPT !.active = TRUE, !.jobs = << >>] IN
    IF isJobSearchPage(site)
    THEN scrapeAllPages(s1, w)
    ELSE IF isJobDetailPage(site)
         THEN [scrapeAllPages(s1, w) EXCEPT !.walk[w].kind = "detail"]
         ELSE [s1 EXCEPT !.walk[w].notice = "unrecognized",
                         !.walk[w].kind = "unrecognized",
                         !.walk[w].pc = "done",
                         !.walk[w].outcome = "returned"]

startScraping(s, w) ==
    LET s1 == [s EXCEPT !.active = TRUE, !.jobs = << >>] IN
    IF isJobSearchPage(site)
    THEN scrapeAllPages(s1, w)
    ELSE IF isJobDetailPage(site)
         THEN FinishStart([scrapeJobDetail(s1) EXCEPT !.walk[w].kind = "detail"],
                          w, "completed")
         ELSE [s1 EXCEPT !.walk[w].notice = "unrecognized",
                         !.walk[w].kind = "unrecognized",
                         !.walk[w].pc = "done",
                         !.walk[w].outcome = "returned"]

\* stopScraping without the this.jobs.length > 0 test
stopScrapingAlwaysSends(s) ==
    [s EXCEPT !.active = FALSE, !.observer = FALSE,
              !.walk = [w \in Runs |-> [@[w] EXCEPT !.late = 0]],
              !.outbox = Append(@, s.jobs), !.stopNotice = "saving"]

stopScraping(s) ==
    LET s1 == [s EXCEPT !.active = FALSE, !.observer = FALSE,
                        !.walk = [w \in Runs |-> [@[w] EXCEPT !.late = 0]]] IN
    IF Len(s.jobs) > 0
    THEN [s1 EXCEPT !.outbox = Append(@, s.jobs), !.stopNotice = "saving"]
    ELSE [s1 EXCEPT !.stopNotice = "nonew"]

\* the watcher's non-enriching pass over the cards of the document
RECURSIVE PushNew(_, _, _)
PushNew(js, cards, k) ==
    IF k > Len(cards) THEN js
    ELSE LET jobData == extractJobDataFromCard(cards[k]) IN
         PushNew(IF jobData # Null /\ ~isDuplicateJob(js, jobData)
                 THEN Append(js, jobData) ELSE js, cards, k + 1)

scrapeJobListings(s) ==
    [s EXCEPT !.jobs = PushNew(s.jobs, CardsOn(site, PageOf(s.start)), 1)]

\* ------------------------------------------------------------------ actions
\* chrome.runtime.onMessage START_SCRAPING
StartCommand ==
    /\ nruns < runCap
    /\ Becomes(startScraping(State, nruns + 1))
    /\ nruns' = nruns + 1
    /\ UNCHANGED <<runCap, site>>

\* chrome.runtime.onMessage STOP_SCRAPING
\* a SAVE_JOBS message can be sent (the model keeps MaxInFlight unanswered)
CanStop == Len(jobs) = 0 \/ Len(outbox) < MaxInFlight

StopCommand ==
    /\ CanStop
    /\ Becomes(stopScraping(State))
    /\ UNCHANGED <<nruns, runCap, site>>

\* the click listener of the floating button
ButtonClick ==
    IF isScrapingActive
    THEN /\ CanStop
         /\ Becomes(stopScraping(State))
         /\ UNCHANGED <<nruns, runCap, site>>
    ELSE /\ nruns < runCap
         /\ Becomes(startScraping(State, nruns + 1))
         /\ nruns' = nruns + 1
         /\ UNCHANGED <<runCap, site>>

\* await triggerLazyLoadingOfAllJobs() of scrapeJobListingsDetailed resumes
LazyDone(w) ==
    /\ walk[w].pc = "lazy"
    /\ IF PageThrows(site, PageOf(startParam))
       THEN Becomes(startScrapingCatch(State, w))
       ELSE Becomes(ScrapeListings(State, w))
    /\ UNCHANGED <<nruns, runCap, site>>

\* clickAndExtractJobDetails resumes after the settle delay, the click and
\* waitForJobDetails; processJobCardDetailed pushes what it returns
ExtractDetail(w) ==
    /\ walk[w].pc = "inDetail"
    /\ LET me == walk[w]
            detailedJobData == clickAndExtractJobDetails(
                                   CardsOn(site, me.page)[me.i], me.basic)
        IN  IF detailedJobData # Null
            THEN Becomes([State EXCEPT
                     !.jobs = Append(@, detailedJobData),
                     !.walk[w].added = @ + 1,
                     !.walk[w].late = IF isScrapingActive THEN @ ELSE @ + 1,
                     !.walk[w].pc = "cardDelay"])
            ELSE Becomes([State EXCEPT !.walk[w].pc = "cardDelay"])
    /\ UNCHANGED <<nruns, runCap, site>>

\* await this.delay(2000) at the end of a card-loop iteration resumes
CardDelayDone(w) ==
    /\ walk[w].pc = "cardDelay"
    /\ Becomes(NextCard([State EXCEPT !.walk[w].i = @ + 1], w))
    /\ UNCHANGED <<nruns, runCap, site>>

\* NavWaitDone that goes back to the loop condition without the driver
NavWaitDoneSkipsDriver(w) ==
    /\ walk[w].pc = "navWait"
    /\ Becomes(LoopTop([State EXCEPT !.walk[w].currentPage = @ + 1], w))
    /\ UNCHANGED <<nruns, runCap, site>>

\* navigateToNextPage returned true; currentPage++; await this.delay(3000);
\* triggerLazyLoadingOfAllJobs is called
NavWaitDone(w) ==
    /\ walk[w].pc = "navWait"
    /\ Becomes([State EXCEPT !.walk[w].currentPage = @ + 1,
                             !.walk[w].drives = @ + 1,
                             !.walk[w].pc = "lazyNav"])
    /\ UNCHANGED <<nruns, runCap, site>>

\* await triggerLazyLoadingOfAllJobs() after a navigation resumes
LazyNavDone(w) ==
    /\ walk[w].pc = "lazyNav"
    /\ Becomes(LoopTop(State, w))
    /\ UNCHANGED <<nruns, runCap, site>>

\* the MutationObserver callback
ObserverCallback ==
    /\ observer
    /\ \E hasNewJobCards \in BOOLEAN :
         IF ~isScrapingActive
         THEN Becomes([State EXCEPT !.observer = FALSE])
         ELSE /\ hasNewJobCards
              /\ passTimers < MaxPasses
              /\ Becomes([State EXCEPT !.passes = @ + 1])
    /\ UNCHANGED <<nruns, runCap, site>>

\* setTimeout(() => this.scrapeJobListings(), 1000) fires
PassTimer ==
    /\ passTimers > 0
    /\ Becomes(scrapeJobListings([State EXCEPT !.passes = @ - 1]))
    /\ UNCHANGED <<nruns, runCap, site>>

\* the 30 s timer of observePageChanges fires
TtlTimer ==
    /\ ttlTimers > 0
    /\ Becomes([State EXCEPT !.ttl = @ - 1, !.observer = FALSE])
    /\ UNCHANGED <<nruns, runCap, site>>

\* what the callback of stopScraping can be handed: a response whose success
\* is true, one whose success is false or missing, and no response at all
\* (undefined), for which response?.success is undefined as well
Answers == {[success |-> "true"], [success |-> "false"], [success |-> "absent"]}

\* the response callback that empties the list whatever the response says
SaveResponseClearsAlways ==
    /\ outbox # << >>
    /\ \E response \in Answers :
         Becomes([State EXCEPT
             !.outbox = Tail(@),
             !.jobs = << >>,
             !.stopNotice = IF response.success = "true" THEN "saved"
                            ELSE "failed"])
    /\ UNCHANGED <<nruns, runCap, site>>

\* the response callback of the SAVE_JOBS message sent by stopScraping
SaveResponse ==
    /\ outbox # << >>
    /\ \E response \in Answers :
         IF response.success = "true"
         THEN Becomes([State EXCEPT !.outbox = Tail(@), !.jobs = << >>,
                                    !.stopNotice = "saved"])
         ELSE Becomes([State EXCEPT !.outbox = Tail(@),
                                    !.stopNotice = "failed"])
    /\ UNCHANGED <<nruns, runCap, site>>

\* window.location.href = url tears the document down: the instance and all
\* its pending continuations are gone, and a fresh instance is constructed on
\* the page the URL now names
PageUnload ==
    /\ \E w \in Runs : walk[w].pc = "navWait"
    /\ jobs' = << >>
    /\ isScrapingActive' = FALSE
    /\ observer' = FALSE
    /\ ttlTimers' = 0
    /\ passTimers' = 0
    /\ walk' = [w \in Runs |-> IF walk[w].pc = "idle" THEN walk[w]
                                ELSE [IdleWalk EXCEPT !.pc = "gone"]]
    /\ outbox' = << >>
    /\ stopNotice' = "none"
    /\ UNCHANGED <<nruns, runCap, startParam, site, lazy, bg, csv, call>>

Next ==
    \/ StartCommand
    \/ StopCommand
    \/ ButtonClick
    \/ \E w \in Runs : LazyDone(w)
    \/ \E w \in Runs : ExtractDetail(w)
    \/ \E w \in Runs : CardDelayDone(w)
    \/ \E w \in Runs : NavWaitDone(w)
    \/ \E w \in Runs : LazyNavDone(w)
    \/ ObserverCallback
    \/ PassTimer
    \/ TtlTimer
    \/ SaveResponse
    \/ PageUnload

\* -------------------------------------------------------------------- sites
cA == Card("A", "X", 1, TRUE, Panel("", ""))    \* enriched, key unchanged
cB == Card("B", "X", 1, TRUE, Panel("A", "X"))  \* the panel's title is "A"
cN == Card("C", "X", 2, FALSE, NoPanel)         \* no clickable link
cI == Card("", "X", 3, TRUE, NoPanel)           \* no title: fails validation
cT == Card("D", "X", 4, TRUE, Throws)           \* the click throws
cV == Card("with verification", "X", 5, TRUE, NoPanel)  \* title cleans to ""
cC == Card("E", "", 6, TRUE, NoPanel)           \* no company
cP == Card("P", "X", 7, TRUE, NoPanel)          \* no details container

Layouts == { << >>, <<cA, cB>>, <<cB, cA>>, <<cN, cI>>, <<cT, cA>>,
             <<cV, cC, cP>> }

\* a search whose pages each show n cards no other page shows
Fresh(p, n) == [k \in 1..n |-> Card("T", "X", 10 * p + k, TRUE, Panel("", ""))]

\* WalkPages pages of cards, each yielding LOW_YIELD_THRESHOLD new records or
\* one less, under a results count that promises one page more
WalkSites ==
    { [search |-> TRUE, detail |-> FALSE, detailJob |-> cA,
       cards |-> [p \in 1..WalkPages |->
                    Fresh(p, IF p \in rich THEN LOW_YIELD_THRESHOLD
                             ELSE LOW_YIELD_THRESHOLD - 1)],
       results |-> [p \in 1..WalkPages |-> JOBS_PER_PAGE * (WalkPages + 1)],
       shown |-> [p \in 1..WalkPages |-> NoMatch]] :
         rich \in SUBSET (1..WalkPages) }

\* two listing pages that repeat one layout, with or without the two signals
MixedSites ==
    { [search |-> TRUE, detail |-> d, detailJob |-> cA,
       cards |-> [p \in 1..2 |-> l],
       results |-> [p \in 1..2 |-> r],
       shown |-> [p \in 1..2 |-> y]] :
         d \in BOOLEAN, l \in Layouts, r \in {0, 26}, y \in {NoMatch, 2} }

\* a standalone detail page (with or without a valid job) and a page that is
\* neither; both may show listing cards of their own
OtherSites ==
    { [search |-> FALSE, detail |-> d, detailJob |-> j,
       cards |-> [p \in 1..1 |-> l],
       results |-> [p \in 1..1 |-> 0],
       shown |-> [p \in 1..1 |-> NoMatch]] :
         d \in BOOLEAN, j \in {cA, cI}, l \in {<< >>, <<cN, cI>>} }

\* the one-card search explored with overlapping startScraping calls
TinySites ==
    { [search |-> TRUE, detail |-> FALSE, detailJob |-> cA,
       cards |-> [p \in 1..1 |-> <<cA>>],
       results |-> [p \in 1..1 |-> 0],
       shown |-> [p \in 1..1 |-> NoMatch]] }

\* two pages whose results count drifts while a page is walked: down to one
\* page's worth, or up to three pages' worth
DriftSites ==
    { [search |-> TRUE, detail |-> FALSE, detailJob |-> cA,
       cards |-> [p \in 1..2 |-> Fresh(p, 2)],
       results |-> [p \in 1..2 |-> JOBS_PER_PAGE + 1],
       shown |-> [p \in 1..2 |-> NoMatch],
       later |-> [p \in 1..2 |-> l]] :
         l \in {JOBS_PER_PAGE, 2 * JOBS_PER_PAGE + 1} }

\* two pages, on one of which scrapeJobListingsDetailed throws
ThrowSites ==
    { [search |-> TRUE, detail |-> FALSE, detailJob |-> cA,
       cards |-> [p \in 1..2 |-> Fresh(p, 2)],
       results |-> [p \in 1..2 |-> JOBS_PER_PAGE + 1],
       shown |-> [p \in 1..2 |-> NoMatch],
       throws |-> {t}] : t \in 1..2 }

\* three pages without cards, explored with overlapping startScraping calls
BareSites ==
    { [search |-> TRUE, detail |-> FALSE, detailJob |-> cA,
       cards |-> [p \in 1..3 |-> << >>],
       results |-> [p \in 1..3 |-> 2 * JOBS_PER_PAGE + 1],
       shown |-> [p \in 1..3 |-> NoMatch]] }

\* only signals: what getPaginationInfo reads
SignalSites ==
    { [search |-> TRUE, detail |-> FALSE, detailJob |-> cA,
       cards |-> [p \in 1..1 |-> << >>],
       results |-> [p \in 1..PageOf(MaxOffset) |-> r],
       shown |-> [p \in 1..PageOf(MaxOffset) |-> y]] :
         r \in 0..MaxResults, y \in {NoMatch} \cup (0..MaxShown) }

\* no triggerLazyLoadingOfAllJobs call is followed step by step
LazyOff == [pc |-> "off", container |-> FALSE, previousJobCount |-> 0,
            currentJobCount |-> 0, stableCount |-> 0, scrollAttempts |-> 0,
            scrollTop |-> 0, scrolls |-> 0, nobs |-> 0, seen |-> << >>,
            exit |-> "none"]

\* the background script is left out
BgOff == [on |-> FALSE]

\* no escapeCsvField call is made
CsvOff == [pc |-> "off"]
CallOff == [pc |-> "off"]

InitInstance ==
    /\ jobs = << >>
    /\ isScrapingActive = FALSE
    /\ observer = FALSE
    /\ ttlTimers = 0
    /\ passTimers = 0
    /\ walk = [w \in Runs |-> IdleWalk]
    /\ nruns = 0
    /\ outbox = << >>
    /\ stopNotice = "none"

Init ==
    /\ InitInstance
    /\ \/ runCap = 1 /\ site \in WalkSites \cup ThrowSites
                     /\ startParam = NoParam
       \/ runCap = 1 /\ site \in DriftSites /\ startParam \in {NoParam, 7}
       \/ runCap = 1 /\ site \in MixedSites \cup OtherSites
                     /\ startParam \in {NoParam, JOBS_PER_PAGE}
       \/ runCap = MaxRuns /\ site \in TinySites \cup OtherSites \cup BareSites
                           /\ startParam = NoParam
    /\ lazy = LazyOff /\ bg = BgOff /\ csv = CsvOff /\ call = CallOff

Spec == Init /\ [][Next]_vars

\* every timer and promise a startScraping call awaits is eventually settled
Resumes(w) ==
    \/ LazyDone(w) \/ ExtractDetail(w) \/ CardDelayDone(w)
    \/ NavWaitDone(w) \/ LazyNavDone(w)

SpecFair == Init /\ [][Next]_vars /\ \A w \in Runs : WF_vars(Resumes(w))

\* getPaginationInfo alone, as the first step of a start on any signals
InitPagination ==
    /\ InitInstance
    /\ runCap = 1
    /\ site \in SignalSites
    /\ startParam \in {NoParam} \cup (0..MaxOffset)
    /\ lazy = LazyOff /\ bg = BgOff /\ csv = CsvOff /\ call = CallOff

NextPagination == StartCommand

SpecPagination == InitPagination /\ [][NextPagination]_vars

\* ------------------------------------------- triggerLazyLoadingOfAllJobs
maxScrollAttempts == 20

\* LeaveLoop that leaves the container where the loop scrolled it
LeaveLoopInPlace(l, how) == [l EXCEPT !.pc = "back", !.exit = how]

\* the loop is left: scroll back to the top, await delay(1500)
LeaveLoop(l, how) == [l EXCEPT !.scrollTop = 0, !.pc = "back", !.exit = how]

\* LoopHead whose while condition admits scrollAttempts = maxScrollAttempts
LoopHeadCapInclusive(l, n, marker, active) ==
    IF ~(l.scrollAttempts <= maxScrollAttempts /\ active)
    THEN LeaveLoop(l, IF active THEN "cap" ELSE "stopped")
    ELSE LET l1 == [l EXCEPT !.currentJobCount = n, !.nobs = @ + 1,
                             !.seen = LastN(Append(@, n), 4)]
             stableCount == IF n = l.previousJobCount
                            THEN l.stableCount + 1 ELSE 0
         IN  IF marker
             THEN LeaveLoop(l1, "marker")
             ELSE IF n = l.previousJobCount /\ stableCount >= 3
                  THEN LeaveLoop([l1 EXCEPT !.stableCount = stableCount], "stable")
                  ELSE [l1 EXCEPT !.stableCount = stableCount,
                                  !.previousJobCount = n,
                                  !.scrollTop = @ + 1,
                                  !.scrolls = @ + 1,
                                  !.pc = "wait"]

\* LoopHead that breaks on stableCount > 3
LoopHeadLate(l, n, marker, active) ==
    IF ~(l.scrollAttempts < maxScrollAttempts /\ active)
    THEN LeaveLoop(l, IF active THEN "cap" ELSE "stopped")
    ELSE LET l1 == [l EXCEPT !.currentJobCount = n, !.nobs = @ + 1,
                             !.seen = LastN(Append(@, n), 4)]
             stableCount == IF n = l.previousJobCount
                            THEN l.stableCount + 1 ELSE 0
         IN  IF marker
             THEN LeaveLoop(l1, "marker")
             ELSE IF n = l.previousJobCount /\ stableCount > 3
                  THEN LeaveLoop([l1 EXCEPT !.stableCount = stableCount], "stable")
                  ELSE [l1 EXCEPT !.stableCount = stableCount,
                                  !.previousJobCount = n,
                                  !.scrollTop = @ + 1,
                                  !.scrolls = @ + 1,
                                  !.pc = "wait"]

\* the while condition and one loop body up to await delay(3000): n cards are
\* counted in the container, marker tells whether the pagination element is
\* within 100 px of the container's bottom
LoopHead(l, n, marker, active) ==
    IF ~(l.scrollAttempts < maxScrollAttempts /\ active)
    THEN LeaveLoop(l, IF active THEN "cap" ELSE "stopped")
    ELSE LET l1 == [l EXCEPT !.currentJobCount = n, !.nobs = @ + 1,
                             !.seen = LastN(Append(@, n), 4)]
             stableCount == IF n = l.previousJobCount
                            THEN l.stableCount + 1 ELSE 0
         IN  IF marker
             THEN LeaveLoop(l1, "marker")
             ELSE IF n = l.previousJobCount /\ stableCount >= 3
                  THEN LeaveLoop([l1 EXCEPT !.stableCount = stableCount], "stable")
                  ELSE [l1 EXCEPT !.stableCount = stableCount,
                                  !.previousJobCount = n,
                                  !.scrollTop = @ + 1,
                                  !.scrolls = @ + 1,
                                  !.pc = "wait"]

\* triggerLazyLoadingOfAllJobs is called by the page walk and runs up to its
\* first suspension
LazyEnter ==
    /\ lazy.pc = "off"
    /\ \E w \in Runs : walk[w].pc = "lazy"
    /\ lazy' = IF ~lazy.container
               THEN [lazy EXCEPT !.pc = "done", !.exit = "nocontainer"]
               ELSE [lazy EXCEPT !.scrollTop = 0, !.pc = "settle"]
    /\ UNCHANGED <<jobs, isScrapingActive, observer, ttlTimers, passTimers, walk,
                   nruns, runCap, startParam, site, outbox, stopNotice, bg, csv,
                   call>>

\* await delay(1000) resumes: the first evaluation of the loop
LazySettled ==
    /\ lazy.pc = "settle"
    /\ \E n \in 0..MaxCards, marker \in BOOLEAN :
           lazy' = LoopHead(lazy, n, marker, isScrapingActive)
    /\ UNCHANGED <<jobs, isScrapingActive, observer, ttlTimers, passTimers, walk,
                   nruns, runCap, startParam, site, outbox, stopNotice, bg, csv,
                   call>>

\* await delay(3000) resumes: scrollAttempts++ and the next evaluation
LazyWaitDone ==
    /\ lazy.pc = "wait"
    /\ \E n \in 0..MaxCards, marker \in BOOLEAN :
           lazy' = LoopHead([lazy EXCEPT !.scrollAttempts = @ + 1], n, marker,
                            isScrapingActive)
    /\ UNCHANGED <<jobs, isScrapingActive, observer, ttlTimers, passTimers, walk,
                   nruns, runCap, startParam, site, outbox, stopNotice, bg, csv,
                   call>>

\* await delay(1500) resumes: final count, notification, return
LazyBackDone ==
    /\ lazy.pc = "back"
    /\ lazy' = [lazy EXCEPT !.pc = "done"]
    /\ UNCHANGED <<jobs, isScrapingActive, observer, ttlTimers, passTimers, walk,
                   nruns, runCap, startParam, site, outbox, stopNotice, bg, csv,
                   call>>

\* a container scrolled anywhere, present or not
LazyInits ==
    { [LazyOff EXCEPT !.container = c, !.scrollTop = t] :
        c \in BOOLEAN, t \in 0..1 }

InitLazy ==
    /\ InitInstance
    /\ runCap = 1 /\ site \in TinySites /\ startParam = NoParam
    /\ lazy \in LazyInits /\ bg = BgOff /\ csv = CsvOff /\ call = CallOff

NextLazy ==
    \/ StartCommand
    \/ StopCommand
    \/ LazyEnter
    \/ LazySettled
    \/ LazyWaitDone
    \/ LazyBackDone

SpecLazy == InitLazy /\ [][NextLazy]_vars

\* ---------------------------------------------------- the background script
\* bg.scrapedJobs is the module variable scrapedJobs; bg.store is the value of
\* the linkedinJobs key of chrome.storage.local; bg.ops are the storage and
\* download calls whose promise is still pending, oldest first.  Observation:
\* bg.last is the last response sent (failed: the storage or download call
\* behind it was rejected, or the payload was no list), bg.cleared tells that a CLEAR_JOBS was answered with
\* success and no SAVE_JOBS has been received since that request.
rA == [title |-> "A", company |-> "X", url |-> 1]
rB == [title |-> "B", company |-> "X", url |-> 2]

StoreAbsent  == [state |-> "absent", list |-> << >>]
StoreJunk    == [state |-> "junk", list |-> << >>]
StoreOf(js)  == [state |-> "list", list |-> js]

Op(kind, value) == [kind |-> kind, value |-> value, saveSince |-> FALSE]

Response(kind, success, error, jobCount, failed) ==
    [kind |-> kind, success |-> success, error |-> error,
     jobCount |-> jobCount, failed |-> failed]

NoResponse == Response("none", "absent", "", 0, FALSE)

\* the payloads of a SAVE_JOBS message: record lists and one non-list
Lists(n) == UNION { [1..k -> {rA, rB}] : k \in 0..n }
Payloads == { [isList |-> TRUE, list |-> l] : l \in Lists(MaxBatch) }
            \cup { [isList |-> FALSE, list |-> << >>] }

\* newJobs.filter(newJob => !scrapedJobs.some(same key))
RECURSIVE jobsToAdd(_, _)
jobsToAdd(existing, newJobs) ==
    IF newJobs = << >> THEN << >>
    ELSE LET rest == jobsToAdd(existing, Tail(newJobs)) IN
         IF \E k \in 1..Len(existing) :
                /\ existing[k].title = Head(newJobs).title
                /\ existing[k].company = Head(newJobs).company
                /\ existing[k].url = Head(newJobs).url
         THEN rest
         ELSE <<Head(newJobs)>> \o rest

\* onMessage SAVE_JOBS: handleSaveJobs up to its await; a payload that is not
\* an array makes it return at once, and the then-callback responds
ReceiveSave(b, payload) ==
    IF ~payload.isList
    THEN [b EXCEPT !.last = Response("SAVE_JOBS", "true", "",
                                     Len(b.scrapedJobs), TRUE)]
    ELSE LET merged == b.scrapedJobs \o jobsToAdd(b.scrapedJobs, payload.list)
         IN  [b EXCEPT !.scrapedJobs = merged,
                       !.ops = [k \in 1..Len(@) |->
                                  [@[k] EXCEPT !.saveSince = TRUE]]
                               \o <<Op("set", merged)>>,
                       !.cleared = FALSE]

\* onMessage CLEAR_JOBS: handleClearJobs up to its await
ReceiveClear(b) ==
    [b EXCEPT !.scrapedJobs = << >>, !.ops = Append(@, Op("remove", << >>))]

\* onMessage EXPORT_CSV: handleExportCSV up to its await; with nothing to
\* export it returns at once, and the then-callback responds
ReceiveExport(b) ==
    IF b.scrapedJobs = << >>
    THEN [b EXCEPT !.last = Response("EXPORT_CSV", "true", "", 0, FALSE)]
    ELSE [b EXCEPT !.ops = Append(@, Op("download", b.scrapedJobs))]

\* onMessage GET_ALL_JOBS
ReceiveGetAll(b) ==
    [b EXCEPT !.last = Response("GET_ALL_JOBS", "absent", "",
                                Len(b.scrapedJobs), FALSE)]

\* onMessage default
ReceiveOther(b) ==
    [b EXCEPT !.last = Response("unknown", "absent", "Unknown action", 0, FALSE)]

\* the oldest pending call settles (ok: fulfilled, otherwise rejected) and the
\* continuation awaiting it runs
Settle(b, ok) ==
    LET op == Head(b.ops)
        b1 == [b EXCEPT !.ops = Tail(@)]
    IN  CASE op.kind = "get" ->
               IF ~ok THEN [b1 EXCEPT !.scrapedJobs = << >>]
               ELSE IF b.store.state = "list"
                    THEN [b1 EXCEPT !.scrapedJobs = b.store.list]
                    ELSE b1
          [] op.kind = "set" ->
               IF ok
               THEN [b1 EXCEPT !.store = StoreOf(op.value),
                               !.last = Response("SAVE_JOBS", "true", "",
                                                 Len(b.scrapedJobs), FALSE)]
               ELSE [b1 EXCEPT !.last = Response("SAVE_JOBS", "false", "failed",
                                                 0, TRUE)]
          [] op.kind = "remove" ->
               IF ok
               THEN [b1 EXCEPT !.store = StoreAbsent,
                               !.last = Response("CLEAR_JOBS", "true", "", 0, FALSE),
                               !.cleared = ~op.saveSince]
               ELSE [b1 EXCEPT !.last = Response("CLEAR_JOBS", "false", "failed",
                                                 0, TRUE)]
          [] op.kind = "download" ->
               [b1 EXCEPT !.last = Response("EXPORT_CSV", "true", "", 0, ~ok)]

ContentIdle ==
    UNCHANGED <<jobs, isScrapingActive, observer, ttlTimers, passTimers, walk,
                nruns, runCap, startParam, site, outbox, stopNotice, lazy, csv,
                call>>

BgSaveJobs ==
    /\ bg.on /\ Len(bg.ops) < MaxPending
    /\ \E payload \in Payloads : bg' = ReceiveSave(bg, payload)
    /\ ContentIdle

BgClearJobs ==
    /\ bg.on /\ Len(bg.ops) < MaxPending
    /\ bg' = ReceiveClear(bg)
    /\ ContentIdle

BgExportCsv ==
    /\ bg.on /\ Len(bg.ops) < MaxPending
    /\ bg' = ReceiveExport(bg)
    /\ ContentIdle

BgGetAllJobs ==
    /\ bg.on
    /\ bg' = ReceiveGetAll(bg)
    /\ ContentIdle

BgOtherMessage ==
    /\ bg.on
    /\ bg' = ReceiveOther(bg)
    /\ ContentIdle

BgSettle ==
    /\ bg.on /\ bg.ops # << >>
    /\ \E ok \in BOOLEAN : bg' = Settle(bg, ok)
    /\ ContentIdle

\* the content script's listener gets a message with an action it does not know
ContentOtherMessage ==
    /\ bg.on
    /\ bg' = [bg EXCEPT !.last = Response("unknown-content", "false",
                                          "Unknown action", 0, FALSE)]
    /\ ContentIdle

\* the script has just been evaluated: scrapedJobs is empty and the startup
\* get is pending, over a storage that holds nothing, a list or something else
BgInits ==
    { [on |-> TRUE, scrapedJobs |-> << >>, store |-> st,
       ops |-> <<Op("get", << >>)>>, last |-> NoResponse, cleared |-> FALSE] :
        st \in {StoreAbsent, StoreJunk, StoreOf(<<rA>>)} }

InitBackground ==
    /\ InitInstance
    /\ runCap = 1 /\ site \in TinySites /\ startParam = NoParam
    /\ lazy = LazyOff /\ csv = CsvOff /\ call = CallOff
    /\ bg \in BgInits

NextBackground ==
    \/ BgSaveJobs
    \/ BgClearJobs
    \/ BgExportCsv
    \/ BgGetAllJobs
    \/ BgOtherMessage
    \/ BgSettle
    \/ ContentOtherMessage

SpecBackground == InitBackground /\ [][NextBackground]_vars

\* ------------------------------------------- the startup load and SAVE_JOBS
\* The background script from its evaluation on, with SAVE_JOBS requests that
\* carry record lists and storage calls that are all fulfilled.  Observation
\* kept in bg: before (the list under the linkedinJobs key when the script was
\* evaluated), sent (the payloads whose storage write is pending, oldest
\* first), acked (the records of the payloads answered with success) and
\* lastAck (the payload answered last, the store and the jobCount it was
\* answered with).
Records(q) == { q[k] : k \in 1..Len(q) }

NoAck == [some |-> FALSE, list |-> << >>, store |-> StoreAbsent, jobCount |-> 0]

StartupSaveJobs ==
    /\ bg.on /\ Len(bg.ops) < MaxPending
    /\ \E l \in Lists(MaxBatch) :
         bg' = [ReceiveSave(bg, [isList |-> TRUE, list |-> l])
                    EXCEPT !.sent = Append(@, l)]
    /\ ContentIdle

StartupSettle ==
    /\ bg.on /\ bg.ops # << >>
    /\ LET b == Settle(bg, TRUE) IN
         bg' = IF Head(bg.ops).kind = "set"
               THEN [b EXCEPT !.sent = Tail(@),
                              !.acked = @ \cup Records(Head(bg.sent)),
                              !.lastAck = [some |-> TRUE,
                                           list |-> Head(bg.sent),
                                           store |-> b.store,
                                           jobCount |-> b.last.jobCount]]
               ELSE b
    /\ ContentIdle

InitStartup ==
    /\ InitInstance
    /\ runCap = 1 /\ site \in TinySites /\ startParam = NoParam
    /\ lazy = LazyOff /\ csv = CsvOff /\ call = CallOff
    /\ \E b \in BgInits :
         bg = [on |-> TRUE, scrapedJobs |-> b.scrapedJobs, store |-> b.store,
               ops |-> b.ops, last |-> b.last, cleared |-> b.cleared,
               before |-> b.store.list, sent |-> << >>, acked |-> {},
               lastAck |-> NoAck]

NextStartup ==
    \/ StartupSaveJobs
    \/ StartupSettle
    \/ BgGetAllJobs

SpecStartup == InitStartup /\ [][NextStartup]_vars

\* ------------------------------------------------------------ escapeCsvField
\* A field is a sequence of characters; the characters that matter to the
\* function are the comma, the double quote, the whitespace and the rest.
Comma   == ","
Quote   == "\""
Newline == "\n"
Space   == " "
Letter  == "a"
Chars   == {Letter, Comma, Quote, Newline, Space}

\* what the class \s matches
IsSpace(c) == c \in {Space, Newline}

Has(f, c) == \E k \in 1..Len(f) : f[k] = c

RECURSIVE trimStart(_)
trimStart(f) ==
    IF f # << >> /\ IsSpace(Head(f)) THEN trimStart(Tail(f)) ELSE f

RECURSIVE trimEnd(_)
trimEnd(f) ==
    IF f # << >> /\ IsSpace(f[Len(f)]) THEN trimEnd(SubSeq(f, 1, Len(f) - 1))
    ELSE f

\* String.prototype.trim
trim(f) == trimEnd(trimStart(f))

\* replace(/\s+/g, ' ')
RECURSIVE replaceSpaceRuns(_)
replaceSpaceRuns(f) ==
    IF f = << >> THEN << >>
    ELSE IF IsSpace(Head(f))
         THEN <<Space>> \o replaceSpaceRuns(trimStart(f))
         ELSE <<Head(f)>> \o replaceSpaceRuns(Tail(f))

\* replace(/"/g, '""')
RECURSIVE doubleQuotes(_)
doubleQuotes(f) ==
    IF f = << >> THEN << >>
    ELSE (IF Head(f) = Quote THEN <<Quote, Quote>> ELSE <<Head(f)>>)
         \o doubleQuotes(Tail(f))

\* escapeCsvField that wraps the field without doubling its quotes
escapeCsvFieldPlainQuotes(field) ==
    IF field = << >> THEN << >>
    ELSE LET cleanField == replaceSpaceRuns(trim(field)) IN
         IF Has(cleanField, Comma) \/ Has(cleanField, Quote)
            \/ Has(cleanField, Newline)
         THEN <<Quote>> \o cleanField \o <<Quote>>
         ELSE cleanField

\* escapeCsvField that trims but keeps the whitespace inside the field
escapeCsvFieldKeepsNewlines(field) ==
    IF field = << >> THEN << >>
    ELSE LET cleanField == trim(field) IN
         IF Has(cleanField, Comma) \/ Has(cleanField, Quote)
            \/ Has(cleanField, Newline)
         THEN <<Quote>> \o doubleQuotes(cleanField) \o <<Quote>>
         ELSE cleanField

escapeCsvField(field) ==
    IF field = << >> THEN << >>
    ELSE LET cleanField == replaceSpaceRuns(trim(field)) IN
         IF Has(cleanField, Comma) \/ Has(cleanField, Quote)
            \/ Has(cleanField, Newline)
         THEN <<Quote>> \o doubleQuotes(cleanField) \o <<Quote>>
         ELSE cleanField

Fields == UNION { [1..k -> Chars] : k \in 0..MaxFieldLen }

\* convertJobsToCSV hands one field of a record to escapeCsvField
EscapeField ==
    /\ csv.pc = "in"
    /\ csv' = [csv EXCEPT !.pc = "out", !.out = escapeCsvField(csv.field)]
    /\ UNCHANGED <<jobs, isScrapingActive, observer, ttlTimers, passTimers,
                   walk, nruns, runCap, startParam, site, outbox, stopNotice,
                   lazy, bg,                   call>>

InitCsv ==
    /\ InitInstance
    /\ runCap = 1 /\ site \in TinySites /\ startParam = NoParam
    /\ lazy = LazyOff /\ bg = BgOff /\ call = CallOff
    /\ csv \in { [pc |-> "in", field |-> f, out |-> << >>] : f \in Fields }

NextCsv == EscapeField

SpecCsv == InitCsv /\ [][NextCsv]_vars

\* -------------------------------------------------- convertRelativeDateToISO
\* A local time is [y, m, d, h]; the calendar is the Gregorian one over years
\* in which every fourth year is a leap year.
DaysIn(y, m) ==
    IF m = 2 THEN (IF y % 4 = 0 THEN 29 ELSE 28)
    ELSE IF m \in {4, 6, 9, 11} THEN 30 ELSE 31

\* Date normalisation of a day-of-month below 1 or above the month's length
RECURSIVE normalizeDay(_)
normalizeDay(t) ==
    IF t.d < 1
    THEN LET py == IF t.m = 1 THEN t.y - 1 ELSE t.y
             pm == IF t.m = 1 THEN 12 ELSE t.m - 1
         IN  normalizeDay([t EXCEPT !.y = py, !.m = pm, !.d = @ + DaysIn(py, pm)])
    ELSE IF t.d > DaysIn(t.y, t.m)
    THEN normalizeDay([t EXCEPT !.y = IF t.m = 12 THEN @ + 1 ELSE @,
                                !.m = IF t.m = 12 THEN 1 ELSE @ + 1,
                                !.d = @ - DaysIn(t.y, t.m)])
    ELSE t

\* Date.prototype.setHours, setDate, setMonth, setFullYear on local fields
setHours(t, h) ==
    normalizeDay([t EXCEPT !.h = h % 24, !.d = @ + ((h - (h % 24)) \div 24)])
setDate(t, d) == normalizeDay([t EXCEPT !.d = d])
setMonth(t, m0) ==
    \* m0 is the zero-based month, possibly negative
    LET k == t.y * 12 + m0 IN
    normalizeDay([t EXCEPT !.y = k \div 12, !.m = (k % 12) + 1])
setFullYear(t, y) == normalizeDay([t EXCEPT !.y = y])

Units == {"hour", "day", "week", "month", "year"}

\* A posted-date text: an amount or none, a word with or without a plural s,
\* the word "ago" or not.  An absolute date (a datetime attribute) has no
\* amount-word-ago shape.
DateTexts ==
    [amount : {NoMatch} \cup (0..MaxAmount),
     word : Units \cup {"minute", "2024-05-01"},
     plural : BOOLEAN, ago : BOOLEAN]

\* lowerDate.match(/(\d+)\s*(hour|day|week|month|year)s?\s*ago/)
Matches(x) == x.amount # NoMatch /\ x.word \in Units /\ x.ago

Absent == [y |-> 0, m |-> 0, d |-> 0, h |-> 0]

convertRelativeDateToISO(x, now) ==
    IF ~Matches(x) THEN Absent
    ELSE LET amount == x.amount
             unit   == x.word
         IN  CASE unit = "hour"  -> setHours(now, now.h - amount)
               [] unit = "day"   -> setDate(now, now.d - amount)
               [] unit = "week"  -> setDate(now, now.d - amount * 7)
               [] unit = "month" -> setMonth(now, (now.m - 1) - amount)
               [] unit = "year"  -> setFullYear(now, now.y - amount)

\* capture times: first and last days of every month of a leap year
CaptureTimes ==
    { t \in [y : {2024}, m : 1..12, d : {1, 28, 29, 30, 31}, h : {0, 23}] :
        t.d <= DaysIn(t.y, t.m) }

\* extractJobDataFromCard converts the posted date it read
ConvertDate ==
    /\ call.pc = "dateIn"
    /\ call' = [call EXCEPT !.pc = "dateOut",
                            !.iso = convertRelativeDateToISO(call.text, call.now)]
    /\ UNCHANGED <<jobs, isScrapingActive, observer, ttlTimers, passTimers,
                   walk, nruns, runCap, startParam, site, outbox, stopNotice, lazy,
                   bg, csv>>

InitDate ==
    /\ InitInstance
    /\ runCap = 1 /\ site \in TinySites /\ startParam = NoParam
    /\ lazy = LazyOff /\ bg = BgOff /\ csv = CsvOff
    /\ call \in { [pc |-> "dateIn", text |-> x, now |-> t, iso |-> Absent] :
                     x \in DateTexts, t \in CaptureTimes }

NextDate == ConvertDate

SpecDate == InitDate /\ [][NextDate]_vars

\* ---------------------------------------------------------- waitForJobDetails
maxWaitTime   == 8000
checkInterval == 300

\* checkForDetails that rejects the promise on expiry
checkForDetailsRejects(c, detailsPanel) ==
    LET c1 == [c EXCEPT !.polls = @ + 1] IN
    IF detailsPanel THEN [c1 EXCEPT !.pc = "resolved", !.panel = TRUE]
    ELSE IF c.elapsed + checkInterval >= maxWaitTime
         THEN [c1 EXCEPT !.elapsed = @ + checkInterval, !.pc = "rejected"]
         ELSE [c1 EXCEPT !.elapsed = @ + checkInterval]

\* one run of checkForDetails: resolve on a panel, resolve on expiry, or arm
\* the next timer
checkForDetails(c, detailsPanel) ==
    LET c1 == [c EXCEPT !.polls = @ + 1] IN
    IF detailsPanel THEN [c1 EXCEPT !.pc = "resolved", !.panel = TRUE]
    ELSE IF c.elapsed + checkInterval >= maxWaitTime
         THEN [c1 EXCEPT !.elapsed = @ + checkInterval, !.pc = "resolved"]
         ELSE [c1 EXCEPT !.elapsed = @ + checkInterval]

CallIdle ==
    UNCHANGED <<jobs, isScrapingActive, observer, ttlTimers, passTimers,
                walk, nruns, runCap, startParam, site, outbox, stopNotice, lazy,
                   bg, csv>>

\* the first run of checkForDetails, or a setTimeout(checkForDetails, 300):
\* the panel is in the document from poll number call.appears on
PollDetails ==
    /\ call.pc = "poll"
    /\ call' = checkForDetails(call, call.appears # NoMatch
                                     /\ call.polls + 1 >= call.appears)
    /\ CallIdle

\* await this.waitForJobDetails() resumes: extractDetailedJobInfo is called
ExtractAfterWait ==
    /\ call.pc = "resolved"
    /\ call' = [call EXCEPT !.pc = "extracted"]
    /\ CallIdle

InitWait ==
    /\ InitInstance
    /\ runCap = 1 /\ site \in TinySites /\ startParam = NoParam
    /\ lazy = LazyOff /\ bg = BgOff /\ csv = CsvOff
    /\ call \in { [pc |-> "poll", elapsed |-> 0, polls |-> 0, panel |-> FALSE,
                    appears |-> a] :
                     a \in {NoMatch} \cup (1..(Ceil(maxWaitTime, checkInterval) + 3)) }

NextWait == PollDetails \/ ExtractAfterWait

SpecWait == InitWait /\ [][NextWait]_vars /\ WF_vars(NextWait)

\* ------------------------------------ caption fragments of the detail view
\* A fragment (the text of one .tvm__text span) is told by the substrings the
\* code looks for in it.
Fragments ==
    [territory : BOOLEAN, state : BOOLEAN, city : BOOLEAN, comma : BOOLEAN,
     ago : BOOLEAN, applicant : BOOLEAN]

\* the three tests as an if / else-if chain
classifyCaptionFirstMatch(f) ==
    IF f.territory \/ f.state \/ f.city
       \/ (f.comma /\ ~f.ago /\ ~f.applicant)
    THEN {"location"}
    ELSE IF f.ago THEN {"postedDate"}
    ELSE IF f.applicant THEN {"applicantCount"}
    ELSE {}

\* the fields of enhancedData one non-empty fragment assigns
classifyCaption(f) ==
    (IF f.territory \/ f.state \/ f.city
        \/ (f.comma /\ ~f.ago /\ ~f.applicant)
     THEN {"location"} ELSE {})
    \cup (IF f.ago THEN {"postedDate"} ELSE {})
    \cup (IF f.applicant THEN {"applicantCount"} ELSE {})

\* one iteration of spans.forEach
ClassifyFragment ==
    /\ call.pc = "captionIn"
    /\ call' = [call EXCEPT !.pc = "captionOut",
                            !.sets = classifyCaption(call.fragment)]
    /\ CallIdle

InitCaption ==
    /\ InitInstance
    /\ runCap = 1 /\ site \in TinySites /\ startParam = NoParam
    /\ lazy = LazyOff /\ bg = BgOff /\ csv = CsvOff
    /\ call \in { [pc |-> "captionIn", fragment |-> f, sets |-> {}] :
                     f \in Fragments }

NextCaption == ClassifyFragment

SpecCaption == InitCaption /\ [][NextCaption]_vars

\* --------------------------------------------------------------- properties
\* the suspensions of a page walk
Walking == {"lazy", "inDetail", "cardDelay", "navWait", "lazyNav"}

SameKey(a, b) == a.title = b.title /\ a.company = b.company /\ a.url = b.url

\* C1: in every reachable state no two records of jobs have the same identity
\* key (title, company, url), whichever of the card path, the watcher pass and
\* the detail-page extraction pushed them.
C1_NoDuplicateKeys ==
    \A a, b \in 1..Len(jobs) : a # b => ~SameKey(jobs[a], jobs[b])

\* C2: at most one page walk is in progress at any moment, for every sequence
\* of start and stop commands and button clicks.
C2_OneWalkAtATime ==
    Cardinality({w \in Runs : walk[w].pc \in Walking}) <= 1

\* a SAVE_JOBS message is sent in this step
Sends == Len(outbox') > Len(outbox)

\* the walk of call w ends in this step while the run is active
EndsByItself(w) ==
    walk[w].pc \in Walking /\ walk'[w].pc = "done" /\ isScrapingActive

\* the document is torn down in this step
Unloads == \E w \in Runs : walk[w].pc # "gone" /\ walk'[w].pc = "gone"

\* C3 (as stated): every step in which a walk ends with records in the working
\* list (last page done, navigation failure, low-yield abort) sends SAVE_JOBS,
\* and a step that sends SAVE_JOBS leaves the run not active.
C3_ReportedOnEveryExit ==
    [][ /\ \A w \in Runs : EndsByItself(w) /\ jobs' # << >> => Sends
        /\ Sends => ~isScrapingActive' ]_vars

\* C3 (amended): SAVE_JOBS is sent only by a stop: the step that sends it
\* carries the whole non-empty working list and leaves the flag false; a walk
\* that ends by itself sends nothing and leaves the flag true; and every step
\* that clears the flag without tearing the document down sends the working
\* list exactly when it is not empty.
C3_ReportedOnlyByStop ==
    [][ /\ Sends => /\ ~isScrapingActive'
                    /\ jobs # << >>
                    /\ outbox' = Append(outbox, jobs)
                    /\ jobs' = jobs
        /\ \A w \in Runs : EndsByItself(w) =>
               outbox' = outbox /\ isScrapingActive'
        /\ (isScrapingActive /\ ~isScrapingActive' /\ ~Unloads) =>
               outbox' = IF jobs = << >> THEN outbox ELSE Append(outbox, jobs)
      ]_vars

\* a walk ended by itself with records, and the stop that followed sent them
C3_Witness ==
    \E w \in Runs :
        /\ walk[w].kind = "search" /\ walk[w].outcome = "completed"
        /\ ~isScrapingActive
        /\ outbox # << >> /\ outbox[Len(outbox)] = jobs

\* call w enters the processing of a card in this step
BeginsCard(w) ==
    walk'[w].i > walk[w].i /\ walk'[w].pc \in {"cardDelay", "inDetail"}

\* call w sets the location to the next page in this step
Navigates(w) == walk[w].pc # "navWait" /\ walk'[w].pc = "navWait"

\* call w enters the body of the page loop in this step
StartsPage(w) == walk'[w].pages > walk[w].pages

\* C4: while the flag stays false after a stop, no call begins a card, sets
\* the location or enters the page loop body; the only record a call still
\* pushes is the one of the card that was inside clickAndExtractJobDetails,
\* so at most one per call.
C4_CooperativeCancellation ==
    [][ (~isScrapingActive /\ ~isScrapingActive') =>
            \A w \in Runs :
                /\ ~BeginsCard(w) /\ ~Navigates(w) /\ ~StartsPage(w)
                /\ walk'[w].late <= 1
                /\ walk'[w].added > walk[w].added => walk[w].pc = "inDetail"
      ]_vars

\* a walk stopped inside a card pushed that card and ended with a page left
C4_Witness ==
    \E w \in Runs :
        /\ ~isScrapingActive
        /\ walk[w].late = 1 /\ walk[w].outcome = "stopped"
        /\ walk[w].pages = 1 /\ walk[w].currentPage < walk[w].info.totalPages

\* the length of the longest suffix of q whose entries are all below 5
LowRun(q) ==
    CHOOSE k \in 0..Len(q) :
        /\ \A j \in (Len(q) - k + 1)..Len(q) : q[j] < 5
        /\ k < Len(q) => q[Len(q) - k] >= 5

ThreeLow(q) == Len(q) = 3 /\ \A j \in 1..3 : q[j] < 5

C6_UnrecognizedStaysIdle ==
    \A w \in Runs : walk[w].kind = "unrecognized" =>
        /\ walk[w].notice = "unrecognized"
        /\ jobs = << >>
        /\ ~isScrapingActive

\* what scrapeJobDetail leaves in the working list emptied by startScraping
DetailResult ==
    LET jobData == extractJobDataFromDetailPage(site.detailJob)
    IN  IF jobData = Null THEN << >> ELSE <<jobData>>

\* C7 (as stated): once a start on a detail page has run, the call has ended
\* without entering the page loop, at most one record is held, the flag is
\* false and no watcher is subscribed or pending.
C7_DetailCompletedImmediately ==
    \A w \in Runs : walk[w].kind = "detail" =>
        /\ walk[w].pc = "done" /\ walk[w].pages = 0
        /\ Len(jobs) <= 1
        /\ ~isScrapingActive /\ ~observer /\ passTimers = 0

\* C7 (amended): a start on a detail page makes the single extraction and
\* returns in the same step without entering the page loop; that step leaves
\* the flag true and the change watcher subscribed.
C7_DetailSingleExtraction ==
    [][ \A w \in Runs : walk'[w].kind = "detail" =>
            /\ walk'[w].pc = "done" /\ walk'[w].pages = 0
            /\ walk'[w].outcome = "completed"
            /\ walk[w].kind # "detail" =>
                   jobs' = DetailResult /\ isScrapingActive' /\ observer'
      ]_vars

\* the detail page's job was extracted and the run is still active
C7_Witness ==
    \E w \in Runs :
        /\ walk[w].kind = "detail" /\ walk[w].pc = "done"
        /\ Len(jobs) = 1 /\ isScrapingActive /\ observer

\* the offset the URL carries (none counts as 0)
Offset == IF startParam = NoParam THEN 0 ELSE startParam

\* C8: calculatedPages is ceil(totalResults / 25) for a positive totalResults
\* and 1 otherwise; currentPage is floor(offset / 25) + 1; totalPages is the
\* larger of calculatedPages and the displayed total, hence never below
\* calculatedPages; 137 results give 6 pages and offset 75 gives page 4.
C8_PaginationInfo ==
    \A w \in Runs : walk[w].kind = "search" =>
        LET info == walk[w].info
            n    == ResultsOn(site, PageOf(startParam))
            y    == ShownOn(site, PageOf(startParam))
        IN  /\ info.totalResults = n
            /\ IF n > 0
               THEN /\ info.calculatedPages * 25 >= n
                    /\ (info.calculatedPages - 1) * 25 < n
               ELSE info.calculatedPages = 1
            /\ (info.currentPage - 1) * 25 <= Offset
            /\ Offset < info.currentPage * 25
            /\ info.totalPages >= info.calculatedPages
            /\ IF y = NoMatch
               THEN info.totalPages = info.calculatedPages
               ELSE /\ info.totalPages >= y
                    /\ info.totalPages \in {info.calculatedPages, y}
            /\ n = 137 => info.calculatedPages = 6
            /\ Offset = 75 => info.currentPage = 4

\* 137 results at offset 75 under an indicator that shows fewer pages
C8_Witness ==
    \E w \in Runs :
        /\ walk[w].kind = "search"
        /\ walk[w].info.totalResults = 137 /\ startParam = 75
        /\ ShownOn(site, 4) = 3
        /\ walk[w].info.totalPages = 6 /\ walk[w].info.currentPage = 4

\* C9 (as stated): with no results count, totalPages is 1 and a walk that has
\* ended entered the page loop exactly once, whatever the indicator shows.
C9_SinglePageWhateverIndicator ==
    \A w \in Runs :
        (walk[w].kind = "search" /\ walk[w].info.totalResults = 0) =>
            /\ walk[w].info.totalPages = 1
            /\ walk[w].pc = "done" => walk[w].pages = 1

\* C9 (amended): with no results count, totalPages is the displayed total when
\* an indicator is rendered with a total above 1, and 1 otherwise; when it is
\* 1 the walk enters the page loop once if it started on page 1 and not at all
\* if it started on a later page.
C9_MissingResults ==
    \A w \in Runs :
        (walk[w].kind = "search" /\ walk[w].info.totalResults = 0) =>
            LET y == ShownOn(site, walk[w].info.currentPage) IN
            /\ walk[w].info.totalPages = IF y # NoMatch /\ y > 1 THEN y ELSE 1
            /\ walk[w].info.totalPages = 1 =>
                   walk[w].pages = IF walk[w].info.currentPage = 1 THEN 1 ELSE 0

\* no results count, "Page 1 of 2" rendered: the walk reached a second page
C9_Witness ==
    \E w \in Runs :
        /\ walk[w].kind = "search" /\ walk[w].info.totalResults = 0
        /\ ShownOn(site, 1) = 2
        /\ walk[w].info.totalPages = 2 /\ walk[w].pages = 2

\* C10: at no time are two cards inside clickAndExtractJobDetails.
C10_OneCardInDetail ==
    Cardinality({w \in Runs : walk[w].pc = "inDetail"}) <= 1

\* a card that carries no title or no company once cleaned
Invalid(card) ==
    card.title \in {"", "with verification"} \/ card.company = ""

\* the urls of the invalid cards of the site, and of its detail page when the
\* page carries no title or no company
InvalidUrls ==
    UNION { {site.cards[p][c].url :
                c \in {d \in 1..Len(site.cards[p]) : Invalid(site.cards[p][d])}} :
            p \in DOMAIN site.cards }
    \cup (IF site.detailJob.title = "" \/ site.detailJob.company = ""
          THEN {site.detailJob.url} ELSE {})

\* C11: every record of jobs has a non-empty title and a non-empty company
\* (so enrichment put no empty one in their place), and no record stems from
\* a card or detail page whose cleaned title or company is empty.
C11_ValidationGate ==
    \A k \in 1..Len(jobs) :
        /\ jobs[k].title # "" /\ jobs[k].company # ""
        /\ jobs[k].url \notin InvalidUrls

\* a walk went over a card whose title cleans to nothing, a card without a
\* company and a valid card, and holds the record of the valid one only
C11_Witness ==
    \E w \in Runs :
        /\ walk[w].pc = "done" /\ walk[w].outcome = "completed"
        /\ CardsOn(site, 1) = <<cV, cC, cP>>
        /\ Len(jobs) = 1 /\ jobs[1].title = "P"

\* the Basic record of a valid card
BasicOf(card) ==
    [title |-> card.title, company |-> card.company, url |-> card.url,
     enriched |-> FALSE]

\* the card has no duplicate of its Basic record in the list js
Passes(js, card) ==
    /\ ~Invalid(card)
    /\ \A k \in 1..Len(js) : ~SameKey(js[k], BasicOf(card))

\* C12: a card that passes validation and the duplicate check gets exactly one
\* record appended, at once when it has no link and when its detail protocol
\* ends otherwise; the record is the unmodified Basic record when the card has
\* no link, the click or the extraction throws, or no details container is
\* found.  A card that does not pass gets none.
C12_EnrichmentKeepsRecord ==
    [][ \A w \in Runs :
          /\ (walk[w].pc = "inDetail" /\ walk'[w].pc # "inDetail" /\ ~Unloads) =>
                LET card == CardsOn(site, walk[w].page)[walk[w].i] IN
                /\ Len(jobs') = Len(jobs) + 1
                /\ SubSeq(jobs', 1, Len(jobs)) = jobs
                /\ card.panel \in {NoPanel, Throws} =>
                       jobs'[Len(jobs')] = BasicOf(card)
          /\ BeginsCard(w) =>
                LET card == CardsOn(site, walk'[w].page)[walk'[w].i] IN
                IF ~Passes(jobs, card)
                THEN jobs' = jobs /\ walk'[w].pc = "cardDelay"
                ELSE IF card.link
                     THEN /\ jobs' = jobs /\ walk'[w].pc = "inDetail"
                          /\ walk'[w].basic = BasicOf(card)
                     ELSE jobs' = Append(jobs, BasicOf(card))
      ]_vars

\* the card whose click throws left its Basic record, the next one was
\* enriched
C12_Witness ==
    \E w \in Runs :
        /\ walk[w].pc = "done"
        /\ Len(jobs) = 2
        /\ jobs[1] = BasicOf(cT) /\ jobs[2].enriched

\* the last four observations counted the same number of cards: the count
\* was unchanged for three consecutive observations
Unchanged3 ==
    Len(lazy.seen) = 4 /\ \A k \in 2..4 : lazy.seen[k] = lazy.seen[1]

\* C13: once an observation finds the card count unchanged for the third
\* consecutive time, the loop is left at that observation: no scroll follows
\* it (one scroll per earlier observation) and fewer than 20 iterations were
\* completed; and the loop is left as stable only on the third consecutive
\* unchanged observation, the first one being compared with 0.
C13_StabilityStop ==
    /\ Unchanged3 =>
          /\ lazy.pc \in {"back", "done"}
          /\ lazy.scrolls = lazy.nobs - 1
          /\ lazy.scrollAttempts = lazy.nobs - 1
          /\ lazy.scrollAttempts < 20
    /\ lazy.exit = "stable" =>
          /\ lazy.stableCount = 3
          /\ lazy.scrolls = lazy.nobs - 1
          /\ IF lazy.nobs = 3
             THEN lazy.seen = <<0, 0, 0>>
             ELSE Unchanged3

\* the count grew once and then stayed: the fifth observation left the loop
C13_Witness ==
    /\ lazy.pc = "done" /\ lazy.exit = "stable"
    /\ lazy.nobs = 5 /\ lazy.scrolls = 4
    /\ lazy.seen = <<2, 2, 2, 2>>

\* The keys of a record list are pairwise different.
NoTwoSameKey(js) ==
    \A a, b \in 1..Len(js) :
        (a # b) => ~(/\ js[a].title = js[b].title
                     /\ js[a].company = js[b].company
                     /\ js[a].url = js[b].url)

\* the step in which the storage write of a SAVE_JOBS is fulfilled and answered
SaveAnswered ==
    /\ bg.on /\ bg.ops # << >> /\ Head(bg.ops).kind = "set"
    /\ bg'.ops = Tail(bg.ops)
    /\ bg'.last.kind = "SAVE_JOBS" /\ bg'.last.success = "true"

\* C14: after any sequence of SAVE_JOBS requests the persisted list holds no two
\* records with the same (title, company, url), also when one payload holds two
\* records with equal keys, and the jobCount of each SAVE_JOBS response is the
\* length of the list persisted by that request.
C14_PersistedKeysUnique ==
    [][ /\ NoTwoSameKey(bg'.store.list)
        /\ SaveAnswered => bg'.last.jobCount = Len(bg'.store.list) ]_vars

\* C15: a response to SAVE_JOBS, CLEAR_JOBS or EXPORT_CSV whose storage write,
\* storage removal or download was rejected, or whose payload was no record
\* list, has success false.
C15_FailuresSurfaced ==
    (bg.on /\ bg.last.failed) => bg.last.success = "false"

\* a listener answers a message whose action it does not know
AnswersUnknown ==
    /\ bg.on /\ bg'.last # bg.last
    /\ bg'.last.kind \in {"unknown", "unknown-content"}

\* C16: a message with an unknown action is answered with success false and
\* the error "Unknown action" by both listeners, and leaves the jobs of the
\* content script, the background list, the storage and the pending calls as
\* they were.
C16_UnknownActionRejected ==
    [][ AnswersUnknown =>
          /\ bg'.last.success = "false"
          /\ bg'.last.error = "Unknown action"
          /\ bg'.scrapedJobs = bg.scrapedJobs
          /\ bg'.store = bg.store
          /\ bg'.ops = bg.ops
          /\ UNCHANGED <<jobs, isScrapingActive, walk>> ]_vars

\* C18: once a CLEAR_JOBS has been answered with success, and until a
\* SAVE_JOBS received after that request, the linkedinJobs key is absent and
\* the list GET_ALL_JOBS returns is empty.
C18_ClearedStaysEmpty ==
    (bg.on /\ bg.cleared) =>
        /\ bg.store = StoreAbsent
        /\ bg.scrapedJobs = << >>

\* navigateToNextPage returns false to call w in this step
NavigationFails(w) ==
    walk[w].outcome # "navfail" /\ walk'[w].outcome = "navfail"

\* what the original wording of C17 asks: the failure shows a notice
C17_NavigationFailureNotice ==
    [][ \A w \in Runs : NavigationFails(w) => walk'[w].notice = "navfail" ]_vars

\* C17: when navigateToNextPage returns false the call leaves the page loop:
\* the location is not set, the working list is what it was, no notification
\* tells of the failure (it is logged only; the one notification the step can
\* show is that of a page without cards), and for as long as the outcome
\* stands the call enters no page and sets no location.
C17_NavigationFailureStops ==
    [][ \A w \in Runs :
          /\ NavigationFails(w) =>
                /\ walk'[w].pc = "done"
                /\ jobs' = jobs
                /\ startParam' = startParam
                /\ walk'[w].notice \in {walk[w].notice, "nocards"}
                /\ walk'[w].pages = walk[w].pages
          /\ (walk[w].outcome = "navfail" /\ walk'[w].outcome = "navfail") =>
                /\ walk'[w].pages = walk[w].pages
                /\ walk'[w].pc = "done"
                /\ ~Navigates(w) ]_vars

\* the first of two pages was walked, both its records are held, and the
\* navigation to the second page failed
C17_Witness ==
    \E w \in Runs :
        /\ walk[w].outcome = "navfail" /\ walk[w].pc = "done"
        /\ walk[w].info.totalPages = 2 /\ walk[w].pages = 1
        /\ Len(jobs) = 2 /\ isScrapingActive

IsPrefix(a, b) == Len(a) <= Len(b) /\ SubSeq(b, 1, Len(a)) = a

\* call w resumes from the click on a card whose click throws
CardThrows(w) ==
    /\ walk[w].pc = "inDetail" /\ walk'[w].pc \notin {"inDetail", "gone"}
    /\ CardsOn(site, walk[w].page)[walk[w].i].panel = Throws

\* an exception raised while call w processes a page reaches startScraping
PageFails(w) == walk[w].outcome # "error" /\ walk'[w].outcome = "error"

\* what the original wording of C19 asks: the exception of a page that is not
\* the last one does not end the page walk
C19_PageFailureSkipped ==
    [][ \A w \in Runs :
          (PageFails(w) /\ walk[w].currentPage < walk[w].info.totalPages)
              => walk'[w].pc # "done" ]_vars

\* C19: an exception while processing one card removes no record and the card
\* loop goes on to the delay before the next card; an exception while
\* processing one page ends the page walk in the catch block of startScraping:
\* the error notification is shown, the working list and the flag are what
\* they were, and for as long as the outcome stands no page is entered.
C19_ErrorsKeepRecords ==
    [][ \A w \in Runs :
          /\ CardThrows(w) =>
                /\ IsPrefix(jobs, jobs')
                /\ walk'[w].pc = "cardDelay"
                /\ walk'[w].i = walk[w].i
          /\ PageFails(w) =>
                /\ jobs' = jobs
                /\ isScrapingActive' = isScrapingActive
                /\ walk'[w].pc = "done"
                /\ walk'[w].notice = "error"
          /\ (walk[w].outcome = "error" /\ walk'[w].outcome = "error") =>
                /\ walk'[w].pages = walk[w].pages
                /\ walk'[w].pc = "done" ]_vars

\* the second page threw after the first gave two records, which are held
C19_Witness ==
    \E w \in Runs :
        /\ walk[w].outcome = "error" /\ walk[w].pages = 2
        /\ Len(jobs) = 2 /\ isScrapingActive /\ ~observer

\* the field is wrapped in double quotes
Quoted(out) == Len(out) >= 2 /\ out[1] = Quote /\ out[Len(out)] = Quote

\* the words of a field: its maximal runs of characters that are no whitespace
RECURSIVE Words(_)
Words(f) ==
    LET g == trimStart(f) IN
    IF g = << >> THEN << >>
    ELSE LET n == CHOOSE k \in 1..Len(g) :
                      /\ \A j \in 1..k : ~IsSpace(g[j])
                      /\ k = Len(g) \/ IsSpace(g[k + 1])
         IN  <<SubSeq(g, 1, n)>> \o Words(SubSeq(g, n + 1, Len(g)))

\* the words joined by single spaces
RECURSIVE Joined(_)
Joined(ws) ==
    IF ws = << >> THEN << >>
    ELSE IF Len(ws) = 1 THEN ws[1]
    ELSE ws[1] \o <<Space>> \o Joined(Tail(ws))

\* a quoted body with every pair of quotes read as one quote
RECURSIVE Undoubled(_)
Undoubled(b) ==
    IF b = << >> THEN << >>
    ELSE IF Len(b) >= 2 /\ b[1] = Quote /\ b[2] = Quote
         THEN <<Quote>> \o Undoubled(SubSeq(b, 3, Len(b)))
         ELSE <<Head(b)>> \o Undoubled(Tail(b))

\* what the original wording of C20 asks: the field itself is quoted, quotes
\* doubled, iff it holds a comma, a quote or a newline, and is emitted as it
\* is otherwise
C20_QuotedIffCommaQuoteNewline ==
    csv.pc = "out" =>
        csv.out = IF Has(csv.field, Comma) \/ Has(csv.field, Quote)
                     \/ Has(csv.field, Newline)
                  THEN <<Quote>> \o doubleQuotes(csv.field) \o <<Quote>>
                  ELSE csv.field

\* C20: escapeCsvField emits the words of the field joined by single spaces
\* (the field trimmed, every run of whitespace, newlines included, turned
\* into one space); that text is wrapped in double quotes with every quote
\* doubled iff the field holds a comma or a double quote, and emitted as it
\* is otherwise; a newline alone never causes quoting and never reaches the
\* output.
C20_QuotedIffCommaOrQuote ==
    csv.pc = "out" =>
        LET text == Joined(Words(csv.field)) IN
        /\ Quoted(csv.out) <=> (Has(csv.field, Comma) \/ Has(csv.field, Quote))
        /\ Quoted(csv.out) =>
              /\ Undoubled(SubSeq(csv.out, 2, Len(csv.out) - 1)) = text
              /\ Len(csv.out) = Len(text) + 2
                    + Cardinality({k \in 1..Len(text) : text[k] = Quote})
        /\ ~Quoted(csv.out) => csv.out = text
        /\ ~Has(csv.out, Newline)

\* a quote, a newline and a comma: quoted, the quote doubled, the newline
\* emitted as a space
C20_Witness ==
    /\ csv.pc = "out"
    /\ csv.field = <<Quote, Newline, Comma>>
    /\ csv.out = <<Quote, Quote, Quote, Space, Comma, Quote>>

\* RFC 4180 reading of a quoted field from the character after its opening
\* quote: a pair of quotes is one quote, a single quote closes the field
RECURSIVE ReadQuoted(_)
ReadQuoted(t) ==
    IF t = << >> THEN << >>
    ELSE IF t[1] = Quote
         THEN IF Len(t) >= 2 /\ t[2] = Quote
              THEN <<Quote>> \o ReadQuoted(SubSeq(t, 3, Len(t)))
              ELSE << >>
         ELSE <<t[1]>> \o ReadQuoted(Tail(t))

\* the field holds a comma, a quote and a newline
HasAllThree(f) == Has(f, Comma) /\ Has(f, Quote) /\ Has(f, Newline)

\* what the original wording of C21 asks: the quoted field reads back as the
\* original string
C21_RoundTripOriginal ==
    (csv.pc = "out" /\ HasAllThree(csv.field)) =>
        /\ Quoted(csv.out)
        /\ ReadQuoted(Tail(csv.out)) = csv.field

\* C21: a field holding a comma, a quote and a newline is emitted as exactly
\* one quoted field with its quotes doubled, and reading that field back
\* gives the words of the original joined by single spaces: the newline (and
\* any other whitespace run or outer whitespace) is not recovered, so the
\* string read back differs from the original.
C21_RoundTripCleaned ==
    (csv.pc = "out" /\ HasAllThree(csv.field)) =>
        LET v == ReadQuoted(Tail(csv.out)) IN
        /\ csv.out = <<Quote>> \o doubleQuotes(v) \o <<Quote>>
        /\ v = Joined(Words(csv.field))
        /\ v # csv.field

\* comma, newline, quote: read back as comma, space, quote
C21_Witness ==
    /\ csv.pc = "out"
    /\ csv.field = <<Comma, Newline, Quote>>
    /\ ReadQuoted(Tail(csv.out)) = <<Comma, Space, Quote>>

\* days from 1 January of year 0 of the calendar to the day of t, and hours
RECURSIVE DaysBefore(_, _)
DaysBefore(y, m) ==
    IF m = 1 THEN y * 365 + ((y + 3) \div 4)
    ELSE DaysBefore(y, m - 1) + DaysIn(y, m - 1)

HoursOf(t) == (DaysBefore(t.y, t.m) + t.d - 1) * 24 + t.h

\* C22: a text "n unit(s) ago" converts to the capture time minus n of the
\* unit: n hours, n days of 24 hours, n weeks of 7 days, the same day and
\* hour (or an earlier day) of the month n months before, of the same month
\* n years before; every other text converts to absent.
C22_RelativeDateExact ==
    call.pc = "dateOut" =>
        LET x == call.text
            now == call.now
            r == call.iso
        IN  IF ~(x.amount # NoMatch /\ x.word \in Units /\ x.ago)
            THEN r = Absent
            ELSE CASE x.word = "hour" -> HoursOf(now) - HoursOf(r) = x.amount
                   [] x.word = "day" -> HoursOf(now) - HoursOf(r) = 24 * x.amount
                   [] x.word = "week" -> HoursOf(now) - HoursOf(r) = 168 * x.amount
                   [] x.word = "month" ->
                        /\ r.y * 12 + r.m = now.y * 12 + now.m - x.amount
                        /\ r.d <= now.d /\ r.h = now.h
                   [] x.word = "year" ->
                        /\ r.y = now.y - x.amount /\ r.m = now.m
                        /\ r.d <= now.d /\ r.h = now.h

\* C23: under settled waits every call that is inside its page walk leaves it
\* (done, or torn down with the document) with no command needed; a call
\* enters at most totalPages - startPage + 1 loop bodies (none when the start
\* page lies beyond totalPages), each with currentPage <= totalPages;
\* currentPage changes only by +1 and only when a navigation wait ends; the
\* card index stays within the cards of the page and moves by +1 only.
C23_PageWalkEnds ==
    /\ \A w \in Runs : (walk[w].pc \in Walking) ~> (walk[w].pc \in {"done", "gone"})
    /\ [](\A w \in Runs :
            /\ walk[w].pages <= Max(0, walk[w].info.totalPages
                                         - walk[w].info.currentPage + 1)
            /\ walk[w].pc \in {"cardDelay", "inDetail"} =>
                  walk[w].i \in 1..Len(CardsOn(site, walk[w].page)))
    /\ [][ \A w \in Runs :
              /\ StartsPage(w) => walk'[w].currentPage <= walk'[w].info.totalPages
              /\ (walk[w].pc \in Walking /\ walk'[w].pc \in Walking
                     /\ walk'[w].currentPage # walk[w].currentPage) =>
                    /\ walk[w].pc = "navWait"
                    /\ walk'[w].currentPage = walk[w].currentPage + 1
              /\ (walk[w].pc \in {"cardDelay", "inDetail"}
                     /\ walk'[w].pc \in {"cardDelay", "inDetail"}
                     /\ walk'[w].i # walk[w].i) =>
                    walk'[w].i = walk[w].i + 1 ]_vars

\* a walk over all pages of a site ended by itself after its last page
C23_Witness ==
    \E w \in Runs :
        /\ walk[w].pc = "done" /\ walk[w].outcome = "completed"
        /\ walk[w].info.totalPages = WalkPages + 1
        /\ walk[w].pages = WalkPages + 1
        /\ walk[w].currentPage = WalkPages + 1
        /\ isScrapingActive

\* C24: one call of triggerLazyLoadingOfAllJobs scrolls at most
\* maxScrollAttempts = 20 times and counts the cards at most that often,
\* whatever counts it observes and whether or not the marker ever shows.
C24_ScrollsBounded ==
    /\ lazy.scrolls <= maxScrollAttempts
    /\ lazy.nobs <= maxScrollAttempts
    /\ lazy.scrollAttempts <= maxScrollAttempts

\* the count changed on every observation and the cap ended the loop
C24_Witness ==
    /\ lazy.pc = "done" /\ lazy.exit = "cap"
    /\ lazy.scrolls = maxScrollAttempts
    /\ lazy.stableCount = 0

\* C25: when the loop was left, by the marker, the stable count, the cap or a
\* stop, the container is at scrollTop = 0 while the call waits to return and
\* when it has returned.
C25_BackAtOrigin ==
    (lazy.pc \in {"back", "done"}
       /\ lazy.exit \in {"marker", "stable", "cap", "stopped"})
        => lazy.scrollTop = 0

\* a stop ended the loop after two scroll steps, and the call has returned
C25_Witness ==
    /\ lazy.pc = "done" /\ lazy.exit = "stopped"
    /\ lazy.scrolls = 2 /\ lazy.scrollTop = 0
    /\ ~isScrapingActive

\* what the original wording of C26 asks: the driver runs once per page
C26_OneDriverRunPerPage ==
    \A w \in Runs : walk[w].drives <= 1

\* C26: the first card of a page is reached only by the step in which a
\* driver run of scrapeJobListingsDetailed returns; while the cards of a page
\* are extracted the driver has run once on the first page of the walk and
\* twice on every later page (after the navigation wait, and again at the
\* start of scrapeJobListingsDetailed).
C26_DriverBeforeCards ==
    /\ [](\A w \in Runs :
            walk[w].pc \in {"cardDelay", "inDetail"} =>
                walk[w].drives = IF walk[w].pages = 1 THEN 1 ELSE 2)
    /\ [][ \A w \in Runs :
              (walk'[w].pc \in {"cardDelay", "inDetail"} /\ walk'[w].i = 1
                 /\ walk[w].i # 1) => walk[w].pc = "lazy" ]_vars

\* the first card of the second page, after two driver runs on that page
C26_Witness ==
    \E w \in Runs :
        /\ walk[w].pc \in {"cardDelay", "inDetail"} /\ walk[w].i = 1
        /\ walk[w].pages = 2 /\ walk[w].currentPage = 2
        /\ walk[w].drives = 2

\* C27: waitForJobDetails resolves, and never rejects, after at most
\* ceil(8000 / 300) = 27 polls, with a panel or without one, and
\* extractDetailedJobInfo is then called in either case.
C27_PollBoundedAndSoft ==
    /\ <>(call.pc = "extracted")
    /\ [](/\ call.pc # "rejected"
          /\ call.polls <= Ceil(maxWaitTime, checkInterval)
          /\ call.polls <= 27
          /\ call.pc \in {"resolved", "extracted"} =>
                \/ call.panel /\ call.polls = call.appears
                \/ ~call.panel /\ call.polls = 27)

\* no panel ever appeared: resolved by expiry at the 27th poll, then extracted
C27_Witness ==
    /\ call.pc = "extracted" /\ call.appears = NoMatch
    /\ call.polls = 27 /\ ~call.panel
    /\ call.elapsed = 27 * checkInterval

\* the pagination the signals of the page shown resolve to after its cards
\* were walked
FreshInfo ==
    getPaginationInfo(ResultsAtNav(site, PageOf(startParam)), startParam,
                      ShownOn(site, PageOf(startParam)))

\* call w leaves the page loop as completed in this step
Completes(w) ==
    /\ walk'[w].kind = "search"
    /\ walk[w].outcome # "completed" /\ walk'[w].outcome = "completed"

\* what the original wording of C28 asks: the walk ends as completed only
\* when the signals of the page it is on resolve to no further page
C28_BoundRecomputed ==
    [][ \A w \in Runs :
          Completes(w) => ~(FreshInfo.currentPage < FreshInfo.totalPages) ]_vars

\* C28: the pagination read at the start of scrapeAllPages is kept for the
\* whole walk, and its totalPages is the bound of the page loop: the walk
\* completes when currentPage has reached that bound, whatever the signals
\* show by then; only navigateToNextPage reads the signals again, so a walk
\* navigates only when both the kept and the fresh totalPages lie beyond the
\* current page.
C28_BoundCached ==
    [][ \A w \in Runs :
          /\ (walk[w].pc \in Walking /\ walk'[w].pc \in Walking \cup {"done"})
                => walk'[w].info = walk[w].info
          /\ Completes(w) => ~(walk'[w].currentPage < walk'[w].info.totalPages)
          /\ Navigates(w) => /\ walk[w].currentPage < walk[w].info.totalPages
                             /\ FreshInfo.currentPage < FreshInfo.totalPages ]_vars

\* the walk completed on page 2 of the 2 pages it read at its start, under
\* signals that by then resolve to 3 pages
C28_Witness ==
    \E w \in Runs :
        /\ walk[w].outcome = "completed" /\ walk[w].pages = 2
        /\ walk[w].info.totalPages = 2 /\ walk[w].currentPage = 2
        /\ FreshInfo.totalPages = 3 /\ FreshInfo.currentPage = 2

\* C29: a navigation writes the offset (nextPage - 1) * 25 with nextPage one
\* more than the page resolved from the offset before, a multiple of 25 that
\* resolves to exactly the next page; and whenever a call is past a
\* navigation wait, on a page of its walk, its loop page number is the page
\* resolved from the offset.
C29_OffsetAndLoopPageAgree ==
    /\ [][ \A w \in Runs : Navigates(w) =>
              /\ startParam' = ((PageOf(startParam) + 1) - 1) * JOBS_PER_PAGE
              /\ startParam' % JOBS_PER_PAGE = 0
              /\ PageOf(startParam') = PageOf(startParam) + 1 ]_vars
    /\ [](\A w \in Runs :
            walk[w].pc \in {"lazyNav", "lazy", "inDetail", "cardDelay"} =>
                walk[w].currentPage = PageOf(startParam))

\* what the original wording of C30 asks: a fragment sets at most one field
C30_AtMostOneField ==
    call.pc = "captionOut" => Cardinality(call.sets) <= 1

\* C30: the three tests on a fragment are independent: postedDate is set iff
\* the fragment holds "ago", applicantCount iff it holds "applicant",
\* location iff it holds "Territory", "State" or "City", or a comma without
\* "ago" and "applicant"; so a fragment sets none, one, two or all three.
C30_IndependentTests ==
    call.pc = "captionOut" =>
        LET f == call.fragment IN
        /\ ("postedDate" \in call.sets) <=> f.ago
        /\ ("applicantCount" \in call.sets) <=> f.applicant
        /\ ("location" \in call.sets) <=>
              (f.territory \/ f.state \/ f.city
                 \/ (f.comma /\ ~f.ago /\ ~f.applicant))
        /\ call.sets \subseteq {"location", "postedDate", "applicantCount"}

\* a fragment with "City", "ago" and "applicant" sets all three fields
C30_Witness ==
    /\ call.pc = "captionOut"
    /\ call.fragment.city /\ call.fragment.ago /\ call.fragment.applicant
    /\ call.sets = {"location", "postedDate", "applicantCount"}

\* call w returns from its branch of startScraping without an exception
Returns(w) ==
    /\ walk[w].pc # "done" /\ walk'[w].pc = "done"
    /\ walk'[w].outcome \in {"completed", "stopped", "aborted", "navfail"}

\* C31 (as stated): whenever a call is inside its page walk and the flag is
\* set, the watcher is subscribed, so a card-shaped insertion is observed.
C31_SubscribedDuringWalk ==
    \A w \in Runs :
        (walk[w].pc \in Walking /\ isScrapingActive) => observer

\* C31 (amended): observePageChanges runs after the branch of startScraping
\* returned, not during the page walk.  A subscription is created only in the
\* step in which a call returns from its branch without an exception and
\* with the flag set; until some call has returned no watcher is subscribed
\* and no pass is pending; and a pass is scheduled only by a subscribed
\* watcher while the flag is set, and appends only records that are not
\* enriched.
C31_SubscribedAfterWalk ==
    [][ /\ (ttlTimers' > ttlTimers \/ (observer' /\ ~observer)) =>
               /\ isScrapingActive'
               /\ \E w \in Runs : Returns(w)
        /\ (\A w \in Runs : walk[w].pc # "done") =>
               ~observer /\ passTimers = 0
        /\ passTimers' > passTimers => observer /\ isScrapingActive
        /\ passTimers' < passTimers /\ ~Unloads =>
               /\ IsPrefix(jobs, jobs')
               /\ \A k \in (Len(jobs) + 1)..Len(jobs') : ~jobs'[k].enriched
      ]_vars

\* a call has ended its walk, the flag is still set, and the watcher it left
\* subscribed has scheduled a pass for an inserted card
C31_Witness ==
    /\ isScrapingActive /\ observer /\ passTimers > 0
    /\ \E w \in Runs : walk[w].kind = "search" /\ walk[w].outcome = "completed"

\* a watcher re-extraction pass runs in this step
PassRuns == passTimers' < passTimers /\ ~Unloads

\* every subscription is gone once its 30 s timer has fired and as soon as the
\* flag is cleared
DisconnectedInTime ==
    /\ ttlTimers' < ttlTimers => ~observer'
    /\ observer' => ttlTimers' > 0
    /\ ~isScrapingActive' => ~observer'

\* C32: a subscription does not outlive the 30 s timer created with it nor a
\* stop, whatever starts and stops came before (a later subscription may
\* be ended early by the timer of an earlier one); and a re-extraction pass
\* that runs while the flag is false appends no record.
C32_WatcherBoundedAndSilentAfterStop ==
    [][ /\ DisconnectedInTime
        /\ (~isScrapingActive /\ PassRuns) => jobs' = jobs ]_vars

\* C33: on every page of a walk the newJobsThisPage that scrapeAllPages
\* computed equals the number of records the walk itself pushed on that page,
\* whatever a watcher pass appended or a reset of the record set removed
\* meanwhile.
C33_NewJobsIsAcceptedCount ==
    \A w \in Runs : walk[w].kind = "search" =>
        walk[w].recent = walk[w].contrib

\* the response callback of a SAVE_JOBS message runs in this step
Answered == Len(outbox') < Len(outbox) /\ ~Unloads

InList(r, q) == \E j \in 1..Len(q) : q[j] = r

\* C34: in the step in which the response to the SAVE_JOBS of a stop arrives,
\* every record that leaves the working list was in the payload of that
\* message; a record pushed after the message was sent stays.
C34_OnlySavedRecordsDiscarded ==
    [][ Answered =>
            \A k \in 1..Len(jobs) :
                ~InList(jobs[k], jobs') => InList(jobs[k], Head(outbox))
      ]_vars

\* the callback of stopScraping took its failure branch in this step
AnsweredWithFailure == Answered /\ stopNotice' = "failed"

\* C36: the step in which a SAVE_JOBS of stopScraping is answered with
\* failure, or with no response, leaves the working list and the flag as they
\* were, and a stop command given then sends the whole list again.
C36_FailedSaveKeepsRecords ==
    [][ AnsweredWithFailure =>
            /\ jobs' = jobs
            /\ isScrapingActive' = isScrapingActive
            /\ jobs' # << >> =>
                   LET again == stopScraping(State') IN
                       /\ again.outbox = Append(outbox', jobs)
                       /\ ~again.active
      ]_vars

\* a save was answered with failure; the run is not active, the records are
\* still held and no message is pending
C36_Witness ==
    /\ stopNotice = "failed" /\ ~isScrapingActive
    /\ jobs # << >> /\ outbox = << >>

\* C35: once no storage call is pending, the list GET_ALL_JOBS returns is the
\* list under the linkedinJobs key, and it holds every record of every
\* SAVE_JOBS answered with success and every record that was under the key
\* when the script started.
C35_NoAcknowledgedSaveLost ==
    (bg.on /\ bg.ops = << >>) =>
        /\ bg.scrapedJobs = bg.store.list
        /\ \A r \in bg.acked \cup Records(bg.before) :
               InList(r, bg.scrapedJobs)

\* the SAVE_JOBS answered in this step carries the payload of the SAVE_JOBS
\* answered just before it, and no SAVE_JOBS has been received after it
SameBatchAnsweredAgain ==
    /\ SaveAnswered
    /\ bg.lastAck.some /\ bg.sent = <<bg.lastAck.list>>

\* C37: when the same batch is delivered twice with no other request in
\* between, the second answer leaves under the linkedinJobs key the records
\* the first answer left, and reports the jobCount the first answer reported.
C37_SaveIdempotent ==
    [][ SameBatchAnsweredAgain =>
            /\ Records(bg'.store.list) = Records(bg.lastAck.store.list)
            /\ bg'.last.jobCount = bg.lastAck.jobCount
      ]_vars

=============================================================================
